---- MODULE Spec2Model ----
(***************************************************************************)
(* Model of the MikroTik bridge-filter manager: the protocol driver        *)
(* (src/mikrotik/mikrotik.py, class MikroTikRouter) and the fleet          *)
(* reconciler (src/mikrotik/routers.py, class Routers).                    *)
(*                                                                         *)
(* A device holds an ordered list of bridge filter items.  The driver      *)
(* talks to one device through a session; every talk is one command of     *)
(* the wire protocol (/interface/bridge/filter/...).  A reconciler slot    *)
(* (add_filter_to_router, change_filter_state, ...) is one action: it      *)
(* runs the whole handler, its try/except/finally included, and leaves in  *)
(* `last` what the handler did (commands sent, signals emitted, sessions   *)
(* opened and closed, whether an exception left the handler).              *)
(*                                                                         *)
(* Python indices are 0-based and are kept 0-based on the wire; sequences  *)
(* here are 1-based, so item number i of a listing is element i + 1.       *)
(***************************************************************************)
EXTENDS Integers, Sequences, FiniteSets, TLC

VARIABLES
    routers,        \* Routers._routers: the roster, a list of router records
    default_data,   \* Routers._default_data: fleet default user and password
    filters,        \* the filter list each device holds, by address string
    last,           \* what the slot that ran last did ("idle": none ran yet)
    config,         \* the configuration file (config.ini)
    table,          \* FilterTable._data and FilterTable._mac_and_targets
    signals         \* the signals emitted and not yet delivered to their slots

vars == <<routers, default_data, filters, last, config, table, signals>>

----------------------------------------------------------------------------
(* Bounds of the model.                                                    *)

\* Longest filter list a device starts with.
MaxRules == 2
\* A session's link may break after 0..MaxBreak successful talks.
MaxBreak == 3

----------------------------------------------------------------------------
(* Values.                                                                 *)

None == "None"

Macs == {"M1", "M2"}
Targets == {"SRC", "DST"}
\* Texts are sequences of characters: a Latin letter, the double quote and
\* the backslash.
Letter == "c"
Quote == "\""
Backslash == "\\"
\* The comments the slots are called with.
Comments == {<<>>, <<Letter>>, <<Quote>>}
ToggleStates == {"enable", "disable"}

\* Address strings the slots are called with: two well-formed, one malformed.
\* A third well-formed one, ThirdAddress, is the router the main window
\* adds and the third column of the table.
GoodAddresses == {"10.0.0.1", "10.0.0.2"}
BadAddress == "10.0.0"
Addresses == GoodAddresses \cup {BadAddress}
\* A well-formed IPv6 address.
SixAddress == "::1"
ThirdAddress == "10.0.0.3"

\* ipaddress.ip_address(text): the parsed address; version 0 stands for the
\* ValueError a malformed text raises.
ip_address(text) ==
    CASE text = "10.0.0.1" -> [version |-> 4, value |-> 1]
      [] text = "10.0.0.2" -> [version |-> 4, value |-> 2]
      [] text = "10.0.0.3" -> [version |-> 4, value |-> 3]
      [] text = "::1" -> [version |-> 6, value |-> 1]
      [] OTHER -> [version |-> 0, value |-> 0]

\* str(ip_address): the text of a parsed address.
str(ip) ==
    CASE ip.version = 4 /\ ip.value = 1 -> "10.0.0.1"
      [] ip.version = 4 /\ ip.value = 2 -> "10.0.0.2"
      [] ip.version = 4 /\ ip.value = 3 -> "10.0.0.3"
      [] ip.version = 6 /\ ip.value = 1 -> "::1"
      [] OTHER -> BadAddress

\* A device's filter item, with the fields the driver reads from a print reply.
\* A missing src-mac-address / dst-mac-address is None.
Item(src, dst, action, disabled, comment) ==
    [chain |-> "forward", action |-> action, disabled |-> disabled,
     comment |-> comment, src_mac_address |-> src, dst_mac_address |-> dst]

\* The items devices hold before the program touches them: rules for one key
\* in two states, a drop rule for the same MAC with the other target, a rule
\* for another MAC, and a drop rule without any MAC matcher.
DeviceItems ==
    { Item("M1", None, "accept", "false", <<>>),
      Item("M1", None, "accept", "true", <<Letter>>),
      Item(None, "M1", "drop", "false", <<>>),
      Item("M2", None, "accept", "false", <<Letter>>),
      Item(None, None, "drop", "false", <<>>) }

RECURSIVE SeqsUpTo(_, _)
SeqsUpTo(S, n) ==
    IF n = 0 THEN {<<>>}
    ELSE LET shorter == SeqsUpTo(S, n - 1)
         IN  shorter \cup {Append(s, x) : s \in shorter, x \in S}

DeviceLists == SeqsUpTo(DeviceItems, MaxRules)

----------------------------------------------------------------------------
(* The device: what it does with one command of the wire protocol.  A      *)
(* command addresses items by their current position in the list.          *)

\* The list without item number i, and with `item` put in as number i.
RemoveAt(items, i) ==
    SubSeq(items, 1, i) \o SubSeq(items, i + 2, Len(items))

InsertAt(items, i, item) ==
    SubSeq(items, 1, i) \o <<item>> \o SubSeq(items, i + 1, Len(items))

\* Whether the device accepts the command: every number names an item.
DeviceAccepts(items, cmd) ==
    /\ \A k \in 1..Len(cmd.numbers) : cmd.numbers[k] \in 0..(Len(items) - 1)
    /\ cmd.cmd = "move" => cmd.arg \in 0..(Len(items) - 1)

\* The list after the command.  move puts the item before the item that is at
\* the destination.
DeviceApply(items, cmd) ==
    LET nums == {cmd.numbers[k] : k \in 1..Len(cmd.numbers)}
    IN  CASE cmd.cmd = "print" -> items
          [] cmd.cmd = "add" -> Append(items, cmd.arg)
          [] cmd.cmd = "remove" -> RemoveAt(items, cmd.numbers[1])
          [] cmd.cmd = "enable" ->
                [k \in 1..Len(items) |->
                    IF k - 1 \in nums THEN [items[k] EXCEPT !.disabled = "false"]
                    ELSE items[k]]
          [] cmd.cmd = "disable" ->
                [k \in 1..Len(items) |->
                    IF k - 1 \in nums THEN [items[k] EXCEPT !.disabled = "true"]
                    ELSE items[k]]
          [] cmd.cmd = "comment" ->
                [k \in 1..Len(items) |->
                    IF k - 1 \in nums THEN [items[k] EXCEPT !.comment = cmd.arg]
                    ELSE items[k]]
          [] cmd.cmd = "move" ->
                LET from == cmd.numbers[1]
                    to == cmd.arg
                    rest == RemoveAt(items, from)
                IN  IF from = to THEN items
                    ELSE InsertAt(rest, IF from < to THEN to - 1 ELSE to, items[from + 1])
          [] OTHER -> items

----------------------------------------------------------------------------
(* A driver session (ros_api.Api held by MikroTikRouter._router).          *)
(* items: the device's list; cmds: the commands sent so far; failed: an    *)
(* exception is propagating out of the driver; breaks/left: the link       *)
(* breaks once `left` talks have succeeded.                                *)

Session(items, env) ==
    [items |-> items, cmds |-> <<>>, failed |-> FALSE,
     breaks |-> env.breaks, left |-> env.left]

Cmd(by, cmd, numbers, arg) ==
    [by |-> by, cmd |-> cmd, numbers |-> numbers, arg |-> arg]

\* self._router.talk(...): sends the command unless an exception is already
\* propagating; raises when the link is broken or the device refuses.
Talk(s, cmd) ==
    IF s.failed THEN s
    ELSE IF s.breaks /\ s.left = 0 THEN [s EXCEPT !.failed = TRUE]
    ELSE IF ~DeviceAccepts(s.items, cmd)
         THEN [s EXCEPT !.failed = TRUE, !.cmds = Append(@, cmd)]
    ELSE [s EXCEPT !.items = DeviceApply(@, cmd),
                   !.cmds = Append(@, cmd),
                   !.left = IF s.breaks THEN @ - 1 ELSE @]

----------------------------------------------------------------------------
(* The driver, MikroTikRouter.  Each method takes the session and gives    *)
(* the session after it, with the value it returns.  Once a talk has       *)
(* raised, the rest of the method is skipped (s.failed).  A method is      *)
(* written as the chain of its steps, each step an operator applied to     *)
(* the result of the step before it.                                       *)

\* The byte of a character and the character of a byte (ASCII).
Ord(ch) ==
    CASE ch = Letter -> 99
      [] ch = Quote -> 34
      [] ch = Backslash -> 92

Chr(byte) ==
    CASE byte = 99 -> Letter
      [] byte = 34 -> Quote
      [] byte = 92 -> Backslash

\* raw_text.encode()
Encode(raw_text) == [k \in 1..Len(raw_text) |-> Ord(raw_text[k])]

\* repr(initial_bytes)[2:-1]: the text between the quotes of the bytes
\* literal.  repr delimits with single quotes, so a double quote is written
\* as it is; a backslash is doubled.
RECURSIVE Repr(_)
Repr(initial_bytes) ==
    IF initial_bytes = <<>> THEN <<>>
    ELSE (IF Head(initial_bytes) = 92 THEN <<Backslash, Backslash>>
          ELSE <<Chr(Head(initial_bytes))>>)
         \o Repr(Tail(initial_bytes))

\* _encode_text
EncodeText(raw_text) == Repr(Encode(raw_text))

\* A byte in front of the bytes of the rest of a literal.
Prepend(byte, rest) == [ok |-> rest.ok, bytes |-> <<byte>> \o rest.bytes]

\* eval(f'b"{raw_text}"') from the k-th character on, for texts of fewer than
\* four characters: a bare double quote ends the literal early and a
\* backslash at the end escapes the closing quote, both a SyntaxError
\* (ok = FALSE); \\ and \" are one byte; any other escape keeps its backslash.
RECURSIVE Eval(_, _)
Eval(raw_text, k) ==
    IF k > Len(raw_text) THEN [ok |-> TRUE, bytes |-> <<>>]
    ELSE IF raw_text[k] = Quote THEN [ok |-> FALSE, bytes |-> <<>>]
    ELSE IF raw_text[k] # Backslash
    THEN Prepend(Ord(raw_text[k]), Eval(raw_text, k + 1))
    ELSE IF k = Len(raw_text) THEN [ok |-> FALSE, bytes |-> <<>>]
    ELSE IF raw_text[k + 1] \in {Backslash, Quote}
    THEN Prepend(Ord(raw_text[k + 1]), Eval(raw_text, k + 2))
    ELSE Prepend(92, Eval(raw_text, k + 1))

\* initial_bytes.decode(encoding): the bytes are ASCII and so is the
\* encoding detected for them.
Decode(initial_bytes) == [k \in 1..Len(initial_bytes) |-> Chr(initial_bytes[k])]

\* _decode_text: an empty text is returned as it is; otherwise the text is
\* evaluated as a bytes literal, outside the try block (ok = FALSE: the
\* SyntaxError leaves the method), and the bytes are decoded.
DecodeText(raw_text) ==
    IF raw_text = <<>> THEN [ok |-> TRUE, text |-> raw_text]
    ELSE [ok |-> Eval(raw_text, 1).ok, text |-> Decode(Eval(raw_text, 1).bytes)]

\* _get_mac_and_target: the source MAC wins over the destination MAC; an
\* item with neither has the empty key.
GetMacAndTarget(item) ==
    IF item.src_mac_address # None
    THEN [mac |-> item.src_mac_address, target |-> "SRC"]
    ELSE IF item.dst_mac_address # None
    THEN [mac |-> item.dst_mac_address, target |-> "DST"]
    ELSE [mac |-> "", target |-> ""]

\* data = {...}; data.update(**self._get_mac_and_target(item))
FilterData(item) ==
    [action |-> item.action, disabled |-> item.disabled,
     comment |-> DecodeText(item.comment).text,
     mac |-> GetMacAndTarget(item).mac, target |-> GetMacAndTarget(item).target]

\* Every comment of the reply can be decoded.
Readable(result) == \A k \in 1..Len(result) : DecodeText(result[k].comment).ok

\* Mutant of Listed: items without a MAC matcher get no entry, so that
\* enumerate counts only the items that have a key.
ListedWithoutBare(after) ==
    [s |-> IF after.failed \/ Readable(after.items) THEN after
           ELSE [after EXCEPT !.failed = TRUE],
     statistics |-> IF after.failed \/ ~Readable(after.items) THEN <<>>
                    ELSE SelectSeq([k \in 1..Len(after.items) |->
                                       FilterData(after.items[k])],
                                   LAMBDA filter_data : filter_data.target # "")]

\* The statistics list built from the reply of a print; a comment that
\* cannot be decoded makes the method raise.
Listed(after) ==
    [s |-> IF after.failed \/ Readable(after.items) THEN after
           ELSE [after EXCEPT !.failed = TRUE],
     statistics |-> IF after.failed \/ ~Readable(after.items) THEN <<>>
                    ELSE [k \in 1..Len(after.items) |-> FilterData(after.items[k])]]

\* _get_total_statistics: one print, one entry per item of the reply.
GetTotalStatistics(s, by) == Listed(Talk(s, Cmd(by, "print", <<>>, None)))

Matches(filter_data, mac_address, target) ==
    filter_data.mac = mac_address /\ filter_data.target = target

\* enumerate(statistics) filtered by the key: the 0-based indices, ascending.
RECURSIVE IndicesFrom(_, _, _, _)
IndicesFrom(statistics, index, mac_address, target) ==
    IF index >= Len(statistics) THEN <<>>
    ELSE (IF Matches(statistics[index + 1], mac_address, target)
          THEN <<index>> ELSE <<>>)
         \o IndicesFrom(statistics, index + 1, mac_address, target)

\* enumerate(statistics) filtered by action == "drop".
RECURSIVE DropIndicesFrom(_, _)
DropIndicesFrom(statistics, index) ==
    IF index >= Len(statistics) THEN <<>>
    ELSE (IF statistics[index + 1].action = "drop" THEN <<index>> ELSE <<>>)
         \o DropIndicesFrom(statistics, index + 1)

\* Mutant of CommentIndices: only the first matching filter is commented.
CommentFirstIndexOnly(s, indices, comment) ==
    IF indices # <<>>
    THEN [s |-> Talk(s, Cmd("add_comment", "comment", <<indices[1]>>,
                            EncodeText(comment))),
          ret |-> "True"]
    ELSE [s |-> s, ret |-> "False"]

\* add_comment, after the listing: one comment command for all the indices.
CommentIndices(s, indices, comment) ==
    IF indices # <<>>
    THEN [s |-> Talk(s, Cmd("add_comment", "comment", indices, EncodeText(comment))),
          ret |-> "True"]
    ELSE [s |-> s, ret |-> "False"]

CommentListed(got, mac_address, target, comment) ==
    CommentIndices(got.s, IndicesFrom(got.statistics, 0, mac_address, target), comment)

\* add_comment
AddComment(s, mac_address, target, comment) ==
    CommentListed(GetTotalStatistics(s, "add_comment"), mac_address, target, comment)

\* Mutant of NewItem: the filter is created disabled.
NewItemDisabled(mac_address, target, comment) ==
    Item(IF target = "SRC" THEN mac_address ELSE None,
         IF target = "DST" THEN mac_address ELSE None,
         "accept", "true", EncodeText(comment))

\* The item an add command creates.
NewItem(mac_address, target, comment) ==
    Item(IF target = "SRC" THEN mac_address ELSE None,
         IF target = "DST" THEN mac_address ELSE None,
         "accept", "false", EncodeText(comment))

\* add_filter: one add command; the device appends the item.
AddFilter(s, mac_address, target, comment) ==
    [s |-> Talk(s, Cmd("add_filter", "add", <<>>, NewItem(mac_address, target, comment))),
     ret |-> None]

\* Mutant of Reversed: the listing is walked without being reversed.
NotReversed(statistics) == statistics

\* statistics.reverse()
Reversed(statistics) ==
    [k \in 1..Len(statistics) |-> statistics[Len(statistics) + 1 - k]]

\* Mutant of RemoveNumber: the position in the reversed list is sent as is.
RemoveNumberForward(statistics, index) == index

\* The number delete_filter removes for position `index` of the reversed list.
RemoveNumber(statistics, index) == Len(statistics) - index - 1

\* The loop of delete_filter over the reversed listing.
RECURSIVE DeleteLoop(_, _, _, _, _, _)
DeleteLoop(s, statistics, index, mac_address, target, filter_was_deleted) ==
    IF s.failed \/ index >= Len(statistics)
    THEN [s |-> s, ret |-> IF filter_was_deleted THEN "True" ELSE "False"]
    ELSE IF Matches(statistics[index + 1], mac_address, target)
    THEN DeleteLoop(Talk(s, Cmd("delete_filter", "remove",
                                <<RemoveNumber(statistics, index)>>, None)),
                    statistics, index + 1, mac_address, target, TRUE)
    ELSE DeleteLoop(s, statistics, index + 1, mac_address, target, filter_was_deleted)

DeleteListed(got, mac_address, target) ==
    DeleteLoop(got.s, Reversed(got.statistics), 0, mac_address, target, FALSE)

\* delete_filter: one listing, reversed, and a remove for every match.
DeleteFilter(s, mac_address, target) ==
    DeleteListed(GetTotalStatistics(s, "delete_filter"), mac_address, target)

\* Mutant of ToggleFirst: the loop has no break and toggles every match, one
\* command after the other, from the one listing.
RECURSIVE ToggleEvery(_, _, _)
ToggleEvery(s, indices, state) ==
    IF indices = <<>> THEN [s |-> s, ret |-> None]
    ELSE ToggleEvery(Talk(s, Cmd("enable_filter", state, <<Head(indices)>>, None)),
                     Tail(indices), state)

\* enable_filter, after the listing: the first match is toggled (break); the
\* method falls off its end and returns None whether or not a filter matched.
ToggleFirst(s, indices, state) ==
    [s |-> IF indices # <<>>
           THEN Talk(s, Cmd("enable_filter", state, <<indices[1]>>, None))
           ELSE s,
     ret |-> None]

ToggleListed(got, mac_address, target, state) ==
    ToggleFirst(got.s, IndicesFrom(got.statistics, 0, mac_address, target), state)

\* enable_filter
EnableFilter(s, mac_address, target, state) ==
    ToggleListed(GetTotalStatistics(s, "enable_filter"), mac_address, target, state)

DropListed(got) == [s |-> got.s, ret |-> DropIndicesFrom(got.statistics, 0)]

\* get_indices_of_drop_filters
GetIndicesOfDropFilters(s) ==
    DropListed(GetTotalStatistics(s, "get_indices_of_drop_filters"))

OwnListed(got, mac_address, target) ==
    [s |-> got.s, ret |-> IndicesFrom(got.statistics, 0, mac_address, target)]

\* get_indices_of_filter
GetIndicesOfFilter(s, mac_address, target) ==
    OwnListed(GetTotalStatistics(s, "get_indices_of_filter"), mac_address, target)

\* Mutant of FirstWith: a later entry of a key replaces the earlier one.
LastWith(statistics, key) ==
    statistics[CHOOSE k \in 1..Len(statistics) :
                  /\ Matches(statistics[k], key[1], key[2])
                  /\ \A j \in (k + 1)..Len(statistics) :
                        ~Matches(statistics[j], key[1], key[2])]

\* The first entry of the listing with the key (mac, target).
FirstWith(statistics, key) ==
    statistics[CHOOSE k \in 1..Len(statistics) :
                  /\ Matches(statistics[k], key[1], key[2])
                  /\ \A j \in 1..(k - 1) : ~Matches(statistics[j], key[1], key[2])]

\* The dictionary MikroTikRouter.get_statistics builds: the keys of the
\* entries that have a target; the first entry of a key gives its comment
\* and state, later ones are only logged.
Dictionary(statistics) ==
    [key \in {<<statistics[k].mac, statistics[k].target>> :
                 k \in {j \in 1..Len(statistics) : statistics[j].target # ""}} |->
        [comment |-> FirstWith(statistics, key).comment,
         disabled |-> FirstWith(statistics, key).disabled]]

DictionaryListed(got) == [s |-> got.s, ret |-> Dictionary(got.statistics)]

\* MikroTikRouter.get_statistics
DriverGetStatistics(s) == DictionaryListed(GetTotalStatistics(s, "get_statistics"))

\* move_filter
MoveFilter(s, index_from, index_to) ==
    [s |-> Talk(s, Cmd("move_filter", "move", <<index_from>>, index_to)),
     ret |-> None]

----------------------------------------------------------------------------
(* The reconciler, Routers.  A slot is a function of the roster, the       *)
(* devices and its arguments; `env` says what the network does to the      *)
(* session the slot opens: conn = FALSE makes the MikroTikRouter           *)
(* constructor raise, breaks/left break the link after `left` talks.       *)

Envs ==
    {[conn |-> FALSE, breaks |-> FALSE, left |-> 0],
     [conn |-> TRUE, breaks |-> FALSE, left |-> 0]}
    \cup {[conn |-> TRUE, breaks |-> TRUE, left |-> l] : l \in 0..MaxBreak}

Router(text) == [ip_address |-> ip_address(text), user |-> None, password |-> None]

\* The empty dictionary {}.
EmptyDict == [key \in {} |-> None]

\* The first position of the roster rs that holds the parsed address ip.
FirstOf(rs, ip) ==
    CHOOSE k \in 1..Len(rs) :
        /\ rs[k].ip_address = ip
        /\ \A j \in 1..(k - 1) : rs[j].ip_address # ip

\* The user and password of a router record, with the defaults filled in.
\* Mutant of Credentials: the overrides count only when both are set.
CredentialsBothOrDefault(router) ==
    IF router.user # None /\ router.password # None
    THEN [ok |-> TRUE, user |-> router.user, password |-> router.password]
    ELSE IF default_data = EmptyDict
    THEN [ok |-> FALSE, user |-> None, password |-> None]
    ELSE [ok |-> TRUE, user |-> default_data.user, password |-> default_data.password]

\* With the defaults still empty, reading a default raises KeyError, which
\* the method turns into its ValueError.
Credentials(router) ==
    IF default_data = EmptyDict /\ (router.user = None \/ router.password = None)
    THEN [ok |-> FALSE, user |-> None, password |-> None]
    ELSE [ok |-> TRUE,
          user |-> IF router.user # None THEN router.user ELSE default_data.user,
          password |-> IF router.password # None THEN router.password
                       ELSE default_data.password]

\* _get_user_and_password_for_router over the roster rs: the first router
\* with the address; ok = FALSE stands for the ValueError.
UserAndPasswordIn(rs, router_ip_address) ==
    IF \/ ip_address(router_ip_address).version = 0
       \/ \A k \in 1..Len(rs) : rs[k].ip_address # ip_address(router_ip_address)
    THEN [ok |-> FALSE, user |-> None, password |-> None]
    ELSE Credentials(rs[FirstOf(rs, ip_address(router_ip_address))])

GetUserAndPasswordForRouter(router_ip_address) ==
    UserAndPasswordIn(routers, router_ip_address)

\* Mutant of Bound: the session is opened for any well-formed address,
\* without looking the address up in the roster.
BoundUnresolved(router_ip_address, env) ==
    ip_address(router_ip_address).version # 0 /\ env.conn

\* The slot got its session: user, password = ...; router = MikroTikRouter(...).
Bound(router_ip_address, env) ==
    GetUserAndPasswordForRouter(router_ip_address).ok /\ env.conn

\* The signals a slot emits.
FilterAdded(router_ip_address, mac_address, target, comment, disabled) ==
    [signal |-> "filter_added", router_ip_address |-> router_ip_address,
     mac |-> mac_address, target |-> target, comment |-> comment,
     disabled |-> disabled]

StatisticsReceived(router_ip_address, statistics, bad_router) ==
    [signal |-> "statistics_received", router_ip_address |-> router_ip_address,
     statistics |-> statistics, bad_router |-> bad_router]

StatisticsFinished == [signal |-> "statistics_finished"]

\* What a slot did.  connected: the session was opened (the local `router`
\* is bound); items: the device's list when the slot ends; raised: an
\* exception left the slot; error: the slot took its except branch.
Outcome(connected, s, ret, events, closed, raised, error) ==
    [connected |-> connected, items |-> s.items, cmds |-> s.cmds, ret |-> ret,
     events |-> events, opened |-> IF connected THEN 1 ELSE 0,
     closed |-> closed, raised |-> raised, error |-> error]

NoSession == Session(<<>>, [breaks |-> FALSE, left |-> 0])

\* What the caller gets from a driver call: its value, or the exception.
Returned(call) == IF call.s.failed THEN "raised" ELSE call.ret

\* Mutant of MoveDestination: the last drop rule instead of the first.
MoveDestinationLastDrop(drop_indices) == drop_indices[Len(drop_indices)]

\* drop_indices[0]: where add_filter_to_router moves the new filter to.
MoveDestination(drop_indices) == drop_indices[1]

\* if drop_indices: router.move_filter(filter_index, drop_indices[0])
MoveBeforeDrop(drop, filter_index) ==
    IF ~drop.s.failed /\ drop.ret # <<>>
    THEN MoveFilter(drop.s, filter_index, MoveDestination(drop.ret)).s
    ELSE drop.s

\* filter_index = router.get_indices_of_filter(...)[-1]: the session after
\* it ([-1] of an empty list raises IndexError), and the index.
LastIndexTaken(own) ==
    IF ~own.s.failed /\ own.ret = <<>> THEN [own.s EXCEPT !.failed = TRUE] ELSE own.s

LastIndex(own) == IF own.ret = <<>> THEN 0 ELSE own.ret[Len(own.ret)]

\* The repositioning of add_filter_to_router, after the add.
Reposition(own) ==
    MoveBeforeDrop(GetIndicesOfDropFilters(LastIndexTaken(own)), LastIndex(own))

\* Mutant of AddFilterEnd: "false" is reported whatever happened.
AddFilterEndReportsFalse(router_ip_address, mac_address, target, comment, s) ==
    Outcome(TRUE, s, None,
            <<FilterAdded(router_ip_address, mac_address, target, comment, "false")>>,
            1, FALSE, s.failed)

\* The end of add_filter_to_router on a bound router: disabled is "false",
\* or "-" from the except branch; the finally block emits and closes.
AddFilterEnd(router_ip_address, mac_address, target, comment, s) ==
    Outcome(TRUE, s, None,
            <<FilterAdded(router_ip_address, mac_address, target, comment,
                          IF s.failed THEN "-" ELSE "false")>>,
            1, FALSE, s.failed)

\* add_filter_to_router.  When the credentials or the constructor fail, the
\* local `router` is never bound and `if router is not None` in the finally
\* block raises UnboundLocalError after the signal was emitted.
AddFilterToRouter(router_ip_address, mac_address, target, comment, env) ==
    IF ~Bound(router_ip_address, env)
    THEN Outcome(FALSE, NoSession, None,
                 <<FilterAdded(router_ip_address, mac_address, target, comment, "-")>>,
                 0, TRUE, TRUE)
    ELSE AddFilterEnd(router_ip_address, mac_address, target, comment,
            Reposition(GetIndicesOfFilter(
                AddFilter(Session(filters[router_ip_address], env),
                          mac_address, target, comment).s,
                mac_address, target)))

\* Python's truth value of what enable_filter returned.
Truthy(value) == value = "True"

\* statistics.get((mac_address, target), {}).get("disabled", "-")
DisabledIn(statistics, key) ==
    IF key \in DOMAIN statistics THEN statistics[key].disabled ELSE "-"

\* The except branch of change_filter_state on a bound router: it reads the
\* statistics over the same session.  An exception there leaves the slot,
\* after the finally block has closed the session.
ChangeExcept(router_ip_address, mac_address, target, comment, ret, stats) ==
    IF stats.s.failed
    THEN Outcome(TRUE, stats.s, ret, <<>>, 1, TRUE, TRUE)
    ELSE Outcome(TRUE, stats.s, ret,
                 <<FilterAdded(router_ip_address, mac_address, target, comment,
                               DisabledIn(stats.ret, <<mac_address, target>>))>>,
                 1, FALSE, TRUE)

\* change_filter_state after enable_filter.  When enable_filter returned a
\* false value, add_filter, which takes three arguments, is called with
\* four: that raises TypeError before anything is sent.
ChangeAfterEnable(router_ip_address, mac_address, target, comment, enabled) ==
    IF ~enabled.s.failed /\ Truthy(enabled.ret)
    THEN Outcome(TRUE, enabled.s, Returned(enabled), <<>>, 1, FALSE, FALSE)
    ELSE ChangeExcept(router_ip_address, mac_address, target, comment,
                      Returned(enabled),
                      DriverGetStatistics([enabled.s EXCEPT !.failed = FALSE]))

\* change_filter_state.  With `router` unbound the except branch and the
\* finally block raise UnboundLocalError.
ChangeFilterState(router_ip_address, mac_address, target, comment, state, env) ==
    IF ~Bound(router_ip_address, env)
    THEN Outcome(FALSE, NoSession, None, <<>>, 0, TRUE, TRUE)
    ELSE ChangeAfterEnable(router_ip_address, mac_address, target, comment,
            EnableFilter(Session(filters[router_ip_address], env),
                         mac_address, target, state))

\* The end of delete_filter_from_router on a bound router: log, close.
DeleteEnd(deleted) ==
    Outcome(TRUE, deleted.s, Returned(deleted), <<>>, 1, FALSE, deleted.s.failed)

\* delete_filter_from_router: the finally block raises UnboundLocalError when
\* `router` was never bound.
DeleteFilterFromRouter(router_ip_address, mac_address, target, env) ==
    IF ~Bound(router_ip_address, env)
    THEN Outcome(FALSE, NoSession, None, <<>>, 0, TRUE, TRUE)
    ELSE DeleteEnd(DeleteFilter(Session(filters[router_ip_address], env),
                                mac_address, target))

\* The end of add_comment_to_filter on a bound router: log; nothing closes
\* the session.
CommentEnd(commented) ==
    Outcome(TRUE, commented.s, Returned(commented), <<>>, 0, FALSE, commented.s.failed)

\* add_comment_to_filter: try/except without a finally block.
AddCommentToFilter(router_ip_address, mac_address, target, comment, env) ==
    IF ~Bound(router_ip_address, env)
    THEN Outcome(FALSE, NoSession, None, <<>>, 0, FALSE, TRUE)
    ELSE CommentEnd(AddComment(Session(filters[router_ip_address], env),
                               mac_address, target, comment))

\* What one iteration of Routers.get_statistics reports for a router that
\* was connected or not and answered with stats; login is the user and
\* password the iteration resolved for the constructor.
Report(router_ip_address, login, connected, stats) ==
    [event |-> StatisticsReceived(router_ip_address,
                                  IF ~connected \/ stats.s.failed THEN EmptyDict
                                  ELSE stats.ret,
                                  ~connected \/ stats.s.failed),
     login |-> login,
     cmds |-> IF connected THEN stats.s.cmds ELSE <<>>,
     opened |-> IF connected THEN 1 ELSE 0,
     closed |-> IF connected THEN 1 ELSE 0]

\* One iteration of the loop of Routers.get_statistics, for a router of the
\* roster rs: resolve, connect, list, close, emit statistics_received.
DeviceStatistics(rs, router, env) ==
    Report(str(router.ip_address),
           UserAndPasswordIn(rs, str(router.ip_address)),
           UserAndPasswordIn(rs, str(router.ip_address)).ok /\ env.conn,
           DriverGetStatistics(Session(filters[str(router.ip_address)], env)))

\* What an iteration and the iterations after it did.
Then(this, rest) ==
    [events |-> <<this.event>> \o rest.events,
     logins |-> <<this.login>> \o rest.logins,
     cmds |-> this.cmds \o rest.cmds,
     opened |-> this.opened + rest.opened,
     closed |-> this.closed + rest.closed]

NothingDone ==
    [events |-> <<>>, logins |-> <<>>, cmds |-> <<>>, opened |-> 0, closed |-> 0]

\* The loop over the roster rs from position index on; envs[k] is what the
\* network does to the session of the k-th router.
RECURSIVE StatisticsLoop(_, _, _)
StatisticsLoop(rs, envs, index) ==
    IF index > Len(rs) THEN NothingDone
    ELSE Then(DeviceStatistics(rs, rs[index], envs[index]),
              StatisticsLoop(rs, envs, index + 1))

\* The record of a cycle whose loop did `loop` and that emitted `events`.
Cycle(loop, events) ==
    [connected |-> loop.opened > 0, items |-> <<>>, cmds |-> loop.cmds,
     ret |-> None, events |-> events, logins |-> loop.logins,
     opened |-> loop.opened, closed |-> loop.closed,
     raised |-> FALSE, error |-> FALSE]

\* The loop of a cycle that a failing device ends.
RECURSIVE AbortingLoop(_, _, _)
AbortingLoop(rs, envs, index) ==
    IF index > Len(rs) THEN NothingDone
    ELSE IF DeviceStatistics(rs, rs[index], envs[index]).event.bad_router
    THEN Then(DeviceStatistics(rs, rs[index], envs[index]), NothingDone)
    ELSE Then(DeviceStatistics(rs, rs[index], envs[index]),
              AbortingLoop(rs, envs, index + 1))

AbortingEvents(loop, n) ==
    IF Len(loop.events) = n /\ \A k \in 1..n : ~loop.events[k].bad_router
    THEN Append(loop.events, StatisticsFinished)
    ELSE loop.events

\* Mutant of GetStatisticsOver: a failing device ends the cycle; the devices
\* after it are not visited and statistics_finished is not emitted.
GetStatisticsOverAborting(rs, envs) ==
    Cycle(AbortingLoop(rs, envs, 1), AbortingEvents(AbortingLoop(rs, envs, 1), Len(rs)))

\* The report of a device in a cycle that does not reset bad_router.
Sticky(this, bad) ==
    [this EXCEPT !.event = StatisticsReceived(this.event.router_ip_address,
                                              IF bad THEN EmptyDict
                                              ELSE this.event.statistics, bad)]

RECURSIVE StickyBadLoop(_, _, _, _)
StickyBadLoop(rs, envs, index, bad_router) ==
    IF index > Len(rs) THEN NothingDone
    ELSE Then(Sticky(DeviceStatistics(rs, rs[index], envs[index]),
                     bad_router
                        \/ DeviceStatistics(rs, rs[index], envs[index]).event.bad_router),
              StickyBadLoop(rs, envs, index + 1,
                     bad_router
                        \/ DeviceStatistics(rs, rs[index], envs[index]).event.bad_router))

\* Mutant of GetStatisticsOver: bad_router is not reset for the next device,
\* so every device after a failing one is reported as bad.
GetStatisticsOverStickyBad(rs, envs) ==
    Cycle(StickyBadLoop(rs, envs, 1, FALSE),
          Append(StickyBadLoop(rs, envs, 1, FALSE).events, StatisticsFinished))

\* The cycle whose loop did `loop`: statistics_finished is emitted after it.
CycleAfter(loop) == Cycle(loop, Append(loop.events, StatisticsFinished))

\* Routers.get_statistics over the roster rs: the loop, then statistics_finished.
GetStatisticsOver(rs, envs) == CycleAfter(StatisticsLoop(rs, envs, 1))

GetStatistics(envs) == GetStatisticsOver(routers, envs)

----------------------------------------------------------------------------
(* The configuration file and the roster slots of Routers.                 *)

\* ConfigData.DEFAULT_CONFIG_DATA
DEFAULT_CONFIG_DATA == [user |-> "admin", password |-> "12345"]

\* A section of the file for one router; an option that is None is absent.
Section(name, user, password) == [name |-> name, user |-> user, password |-> password]

\* The file: the options of its MAIN section and the router sections in
\* the order they stand in the file.
ConfigFile(main, sections) == [main |-> main, sections |-> sections]

\* No file, or an empty one.
NoFile == ConfigFile(EmptyDict, <<>>)

\* _read_default_user_and_password: an option MAIN lacks falls back to
\* DEFAULT_CONFIG_DATA.
ReadDefaultUserAndPassword(main) ==
    [user |-> IF "user" \in DOMAIN main THEN main.user ELSE DEFAULT_CONFIG_DATA.user,
     password |-> IF "password" \in DOMAIN main THEN main.password
                  ELSE DEFAULT_CONFIG_DATA.password]

\* The loop of _read_routers_from_config: a section whose name is not an
\* address is skipped.
RECURSIVE ParsedSections(_)
ParsedSections(sections) ==
    IF sections = <<>> THEN <<>>
    ELSE (IF ip_address(Head(sections).name).version = 0 THEN <<>>
          ELSE <<[ip_address |-> ip_address(Head(sections).name),
                  user |-> Head(sections).user,
                  password |-> Head(sections).password]>>)
         \o ParsedSections(Tail(sections))

\* Comparing an IPv4 address with an IPv6 address raises TypeError.
SameVersion(data) ==
    \A i, j \in 1..Len(data) : data[i].ip_address.version = data[j].ip_address.version

\* The sorted list with one more router put in, after the routers that are
\* not greater than it.
InsertByAddress(sorted, router) ==
    SelectSeq(sorted, LAMBDA x : x.ip_address.value <= router.ip_address.value)
    \o <<router>>
    \o SelectSeq(sorted, LAMBDA x : x.ip_address.value > router.ip_address.value)

RECURSIVE SortedByAddress(_)
SortedByAddress(data) ==
    IF data = <<>> THEN <<>>
    ELSE InsertByAddress(SortedByAddress(SubSeq(data, 1, Len(data) - 1)),
                         data[Len(data)])

\* sorted(data, key=lambda x: x["ip_address"]); ok = FALSE: TypeError, the
\* list holds addresses of both versions.
Sorted(data) ==
    [ok |-> SameVersion(data),
     routers |-> IF SameVersion(data) THEN SortedByAddress(data) ELSE data]

\* _read_routers_from_config
ReadRoutersFromConfig(sections) == Sorted(ParsedSections(sections))

\* save_config_file(default_data, routers): MAIN holds the defaults, then
\* one section per router named by its address, without the options that
\* are None.
SavedFile(default, rs) ==
    ConfigFile(default,
               [k \in 1..Len(rs) |->
                   Section(str(rs[k].ip_address), rs[k].user, rs[k].password)])

\* _is_there_already_router
IsThereAlreadyRouter(rs, ip) == \E k \in 1..Len(rs) : rs[k].ip_address = ip

RouterIpAddressAdded == [signal |-> "router_ip_address_added"]

\* What a roster slot did: the roster it leaves, the signals it emitted,
\* whether an exception left it and whether it saved the configuration.
RosterOutcome(rs, events, raised, saved) ==
    [routers |-> rs, events |-> events, raised |-> raised, saved |-> saved]

\* add_ip_address after the append: sorted() raises before the roster is
\* rebound, and the appended router stays at the end of the list.
AddSorted(appended) ==
    IF Sorted(appended).ok
    THEN RosterOutcome(Sorted(appended).routers, <<RouterIpAddressAdded>>, FALSE, TRUE)
    ELSE RosterOutcome(appended, <<>>, TRUE, FALSE)

\* add_ip_address
AddIpAddress(text) ==
    IF \/ ip_address(text).version = 0
       \/ IsThereAlreadyRouter(routers, ip_address(text))
    THEN RosterOutcome(routers, <<>>, FALSE, FALSE)
    ELSE AddSorted(Append(routers, Router(text)))

\* router_index of delete_router: the last index with the address (the
\* loop has no break); 0 stands for None.
RouterIndex(rs, ip) ==
    IF IsThereAlreadyRouter(rs, ip)
    THEN CHOOSE k \in 1..Len(rs) :
            /\ rs[k].ip_address = ip
            /\ \A j \in (k + 1)..Len(rs) : rs[j].ip_address # ip
    ELSE 0

\* Mutant of Pop: the routers after the index go, too.
PopFrom(rs, router_index) ==
    IF router_index = 0 THEN rs ELSE SubSeq(rs, 1, router_index - 1)

\* if router_index is not None: self._routers.pop(router_index)
Pop(rs, router_index) ==
    IF router_index = 0 THEN rs ELSE RemoveAt(rs, router_index - 1)

\* delete_router: a malformed address is logged in the except branch; else
\* the roster is saved, whether or not a router was removed.
DeleteRouter(text) ==
    IF ip_address(text).version = 0
    THEN RosterOutcome(routers, <<>>, FALSE, FALSE)
    ELSE RosterOutcome(Pop(routers, RouterIndex(routers, ip_address(text))),
                       <<>>, FALSE, TRUE)

\* RouterDialog.change_data: the roster the dialog sends back, with the
\* user and password of the chosen router set from the line edits.
ChangeData(rs, k, user, password) ==
    IF k \in 1..Len(rs) THEN [rs EXCEPT ![k].user = user, ![k].password = password]
    ELSE rs

----------------------------------------------------------------------------
(* The state machine.  The fleet starts in any state within the bounds     *)
(* and one slot of the reconciler runs on it.                              *)

\* The rosters: sorted by address, no address twice, no credential override.
Rosters ==
    {<<>>, <<Router("10.0.0.1")>>, <<Router("10.0.0.2")>>,
     <<Router("10.0.0.1"), Router("10.0.0.2")>>}

InRoster(rs, text) == \E k \in 1..Len(rs) : rs[k].ip_address = ip_address(text)

RECURSIVE SumLen(_, _)
SumLen(f, S) ==
    IF S = {} THEN 0
    ELSE LET a == CHOOSE x \in S : TRUE IN Len(f[a]) + SumLen(f, S \ {a})

\* What column 1, 2, ... of the table shows in row 1 (column 0 holds the
\* labels of the filters): a VerticalLabel with its text and the column that
\* partial(self.show_context_menu_for_router, label_router, column) keeps;
\* 0 stands for a heading without a context menu.
Heading(text) == [text |-> text, column |-> 0]

INITIAL_COLUMN_COUNT == 4

\* _init_ui: INITIAL_COLUMN_COUNT columns, the space of the first router
\* and the headings of the buttons.
InitialColumns == <<Heading(""), Heading("delete"), Heading("distribute")>>

\* The table before any statistics arrived: no routers, no filters, and
\* disabled by the main window until statistics_finished.
EmptyTable ==
    [data |-> <<>>, mac_and_targets |-> EmptyDict, labels |-> EmptyDict,
     columns |-> InitialColumns, enabled |-> FALSE]

Idle ==
    [op |-> "idle", router_ip_address |-> None, mac |-> None, target |-> None,
     comment |-> <<>>, state |-> None, envs |-> <<>>, before |-> <<>>,
     connected |-> FALSE, cmds |-> <<>>, ret |-> None, events |-> <<>>,
     opened |-> 0, closed |-> 0, raised |-> FALSE, error |-> FALSE]

\* The record of a slot that ran with the given arguments and outcome.
Ran(op, router_ip_address, mac_address, target, comment, state, envs, o) ==
    [op |-> op, router_ip_address |-> router_ip_address, mac |-> mac_address,
     target |-> target, comment |-> comment, state |-> state, envs |-> envs,
     before |-> filters, connected |-> o.connected, cmds |-> o.cmds,
     ret |-> o.ret, events |-> o.events, opened |-> o.opened,
     closed |-> o.closed, raised |-> o.raised, error |-> o.error]

\* The devices after a slot that worked on the device at router_ip_address.
FiltersAfter(router_ip_address, o) ==
    IF o.connected THEN [filters EXCEPT ![router_ip_address] = o.items]
    ELSE filters

Init ==
    /\ routers \in Rosters
    /\ default_data = [user |-> "admin", password |-> "12345"]
    /\ filters \in [GoodAddresses -> DeviceLists]
    /\ SumLen(filters, GoodAddresses) <= MaxRules
    /\ \A a \in GoodAddresses : ~InRoster(routers, a) => filters[a] = <<>>
    /\ last = Idle
    /\ config = NoFile
    /\ table = EmptyTable
    /\ signals = <<>>

add_filter_to_router ==
    /\ last.op = "idle"
    /\ \E a \in Addresses, mac \in Macs, target \in Targets, comment \in Comments,
          env \in Envs :
          LET o == AddFilterToRouter(a, mac, target, comment, env)
          IN  /\ filters' = FiltersAfter(a, o)
              /\ last' = Ran("add_filter_to_router", a, mac, target, comment,
                             None, <<>>, o)
    /\ UNCHANGED <<routers, default_data, config, table, signals>>

change_filter_state ==
    /\ last.op = "idle"
    /\ \E a \in Addresses, mac \in Macs, target \in Targets, comment \in Comments,
          state \in ToggleStates, env \in Envs :
          LET o == ChangeFilterState(a, mac, target, comment, state, env)
          IN  /\ filters' = FiltersAfter(a, o)
              /\ last' = Ran("change_filter_state", a, mac, target, comment,
                             state, <<>>, o)
    /\ UNCHANGED <<routers, default_data, config, table, signals>>

delete_filter_from_router ==
    /\ last.op = "idle"
    /\ \E a \in Addresses, mac \in Macs, target \in Targets, env \in Envs :
          LET o == DeleteFilterFromRouter(a, mac, target, env)
          IN  /\ filters' = FiltersAfter(a, o)
              /\ last' = Ran("delete_filter_from_router", a, mac, target, None,
                             None, <<>>, o)
    /\ UNCHANGED <<routers, default_data, config, table, signals>>

add_comment_to_filter ==
    /\ last.op = "idle"
    /\ \E a \in Addresses, mac \in Macs, target \in Targets, comment \in Comments,
          env \in Envs :
          LET o == AddCommentToFilter(a, mac, target, comment, env)
          IN  /\ filters' = FiltersAfter(a, o)
              /\ last' = Ran("add_comment_to_filter", a, mac, target, comment,
                             None, <<>>, o)
    /\ UNCHANGED <<routers, default_data, config, table, signals>>

get_statistics ==
    /\ last.op = "idle"
    /\ \E envs \in [1..Len(routers) -> Envs] :
          last' = Ran("get_statistics", None, None, None, None, None, envs,
                      GetStatistics(envs))
    /\ UNCHANGED <<routers, default_data, filters, config, table, signals>>

Next ==
    \/ add_filter_to_router
    \/ change_filter_state
    \/ delete_filter_from_router
    \/ add_comment_to_filter
    \/ get_statistics

Spec == Init /\ [][Next]_vars

----------------------------------------------------------------------------
(* The roster.  The program starts with an empty roster and a              *)
(* configuration file; read_config_file is the first slot to run, and the  *)
(* roster slots follow in any order.                                       *)

\* The texts add_ip_address and delete_router are called with.
RosterAddresses == GoodAddresses \cup {SixAddress, BadAddress}

\* Overrides and defaults the dialog can set.
Users == {None, "u"}
Passwords == {None, "p"}
DefaultDatas == {DEFAULT_CONFIG_DATA, [user |-> "root", password |-> "toor"]}

\* The files the program may find when it starts: none; a file whose
\* sections are out of order and carry a user override; a file with a name
\* that is not an address; a file with addresses of both versions.
Configs ==
    {NoFile,
     ConfigFile(EmptyDict, <<Section("10.0.0.2", "u", None),
                             Section("10.0.0.1", None, None)>>),
     ConfigFile([user |-> "root", password |-> "toor"],
                <<Section("10.0.0", None, None), Section("10.0.0.1", None, "p")>>),
     ConfigFile(EmptyDict, <<Section("::1", None, None)>>),
     ConfigFile(EmptyDict, <<Section("10.0.0.1", None, None),
                             Section("::1", None, None)>>)}

\* What the network does to the sessions of a cycle of this specification:
\* the constructor raises, or the link holds.
RosterEnvs == {env \in Envs : ~env.breaks}

\* The record of a roster slot that ran.
RosterRan(op, router_ip_address, o, cycle) ==
    [op |-> op, router_ip_address |-> router_ip_address,
     before |-> routers, file |-> config,
     events |-> o.events \o cycle.events, logins |-> cycle.logins,
     opened |-> cycle.opened, closed |-> cycle.closed, cmds |-> cycle.cmds,
     raised |-> o.raised, saved |-> o.saved]

InitRoster ==
    /\ routers = <<>>
    /\ default_data = EmptyDict
    /\ filters = [a \in GoodAddresses \cup {SixAddress} |-> <<>>]
    /\ last = Idle
    /\ config \in Configs
    /\ table = EmptyTable
    /\ signals = <<>>

\* Routers.read_config_file: read the file, then a statistics cycle.  When
\* sorting the routers of the file raises, nothing is assigned.
read_config_file ==
    /\ last.op = "idle"
    /\ UNCHANGED <<filters, config, table, signals>>
    /\ IF ReadRoutersFromConfig(config.sections).ok
       THEN /\ default_data' = ReadDefaultUserAndPassword(config.main)
            /\ routers' = ReadRoutersFromConfig(config.sections).routers
            /\ \E envs \in [1..Len(routers') -> RosterEnvs] :
                  last' = RosterRan("read_config_file", None,
                                    RosterOutcome(routers', <<>>, FALSE, FALSE),
                                    GetStatistics(envs)')
       ELSE /\ UNCHANGED <<routers, default_data>>
            /\ last' = RosterRan("read_config_file", None,
                                 RosterOutcome(routers, <<>>, TRUE, FALSE),
                                 NothingDone)

\* What a roster slot leaves: the roster, the file when it saved.
RosterSlot(op, router_ip_address, default, o) ==
    /\ routers' = o.routers
    /\ default_data' = default
    /\ config' = IF o.saved THEN SavedFile(default, o.routers) ELSE config
    /\ last' = RosterRan(op, router_ip_address, o, NothingDone)
    /\ UNCHANGED <<filters, table, signals>>

add_ip_address ==
    /\ last.op # "idle"
    /\ \E text \in RosterAddresses :
          RosterSlot("add_ip_address", text, default_data, AddIpAddress(text))

delete_router ==
    /\ last.op # "idle"
    /\ \E text \in RosterAddresses :
          RosterSlot("delete_router", text, default_data, DeleteRouter(text))

\* The most change_data calls whose signal is not delivered yet.
MaxPending == 1

\* The entries of the dialog's combo box the user may pick.
DialogRows == 1..2

\* The signal of the dialog: the default data it built, and the list of
\* router dictionaries it was handed, which is the roster itself.
NewDataShouldBeSet(new_default_data) ==
    [signal |-> "new_data_should_be_set", default_data |-> new_default_data]

\* RouterDialog.change_data, on the thread of the windows.  The dialog got
\* the roster of collect_data_for_dialog_window by reference, so the user
\* and the password it writes are written into the roster's dictionaries;
\* the new default data and the list travel with the queued signal.
change_data ==
    /\ last.op # "idle"
    /\ Len(signals) < MaxPending
    /\ \E new_default_data \in DefaultDatas, k \in DialogRows, user \in Users,
          password \in Passwords :
          /\ routers' = ChangeData(routers, k, user, password)
          /\ signals' = Append(signals, NewDataShouldBeSet(new_default_data))
          /\ last' = RosterRan("change_data", None,
                               RosterOutcome(routers', <<>>, FALSE, FALSE),
                               NothingDone)
    /\ UNCHANGED <<default_data, filters, config, table>>

\* set_new_default_data_and_routers, when the signal of the dialog is
\* delivered: the default data and the list are assigned and saved.
set_new_default_data_and_routers ==
    /\ last.op # "idle"
    /\ signals # <<>>
    /\ routers' = routers
    /\ default_data' = Head(signals).default_data
    /\ config' = SavedFile(default_data', routers')
    /\ last' = RosterRan("set_new_default_data_and_routers", None,
                         RosterOutcome(routers', <<>>, FALSE, TRUE),
                         NothingDone)
    /\ signals' = Tail(signals)
    /\ UNCHANGED <<filters, table>>

\* get_statistics on the roster as it is (table_should_be_updated).
update_statistics ==
    /\ last.op # "idle"
    /\ \E envs \in [1..Len(routers) -> RosterEnvs] :
          last' = RosterRan("get_statistics", None,
                            RosterOutcome(routers, <<>>, FALSE, FALSE),
                            GetStatistics(envs))
    /\ UNCHANGED <<routers, default_data, filters, config, table, signals>>

NextRoster ==
    \/ read_config_file
    \/ add_ip_address
    \/ delete_router
    \/ change_data
    \/ set_new_default_data_and_routers
    \/ update_statistics

SpecRoster == InitRoster /\ [][NextRoster]_vars

----------------------------------------------------------------------------
(* The table of the main window (FilterTable) and the signals between it   *)
(* and Routers.  FilterTable lives in the GUI thread, Routers in a worker  *)
(* thread: an emitted signal waits in the queue of the receiving thread    *)
(* and the slots of one thread run one after another.                      *)

\* The texts of a combo box: "Вкл", "Выкл" and "-".
TextOn == "On"
TextOff == "Off"
TextNone == "-"

\* The signals FilterTable emits.
TableShouldBeUpdated == [signal |-> "table_should_be_updated"]

FilterShouldBeAdded(router_ip_address, mac_address, target, comment) ==
    [signal |-> "filter_should_be_added", router_ip_address |-> router_ip_address,
     mac |-> mac_address, target |-> target, comment |-> comment]

\* filter_should_be_changed goes to change_filter_state, which takes the
\* comment of the filter as well: the signal is taken to carry the comment
\* of the row.
FilterShouldBeChanged(router_ip_address, mac_address, target, comment, state) ==
    [signal |-> "filter_should_be_changed", router_ip_address |-> router_ip_address,
     mac |-> mac_address, target |-> target, comment |-> comment, state |-> state]

FilterShouldBeDeleted(router_ip_address, mac_address, target) ==
    [signal |-> "filter_should_be_deleted", router_ip_address |-> router_ip_address,
     mac |-> mac_address, target |-> target]

CommentShouldBeAdded(router_ip_address, mac_address, target, comment) ==
    [signal |-> "comment_should_be_added", router_ip_address |-> router_ip_address,
     mac |-> mac_address, target |-> target, comment |-> comment]

\* The two queues: the signals waiting for Routers and for FilterTable.
Queues(to_routers, to_table) == [routers |-> to_routers, table |-> to_table]

\* statistics.get((mac_address, target), None) as a truth value: the router
\* has an entry for the key and the entry is not {}.
HasFilter(statistics, key) ==
    key \in DOMAIN statistics /\ DOMAIN statistics[key] # {}

\* get_current_text of _create_combo_box, for the entry of a key.
GetCurrentText(entry) ==
    IF DOMAIN entry = {} THEN TextNone
    ELSE IF entry.disabled = "false" THEN TextOn
    ELSE IF entry.disabled = "true" THEN TextOff
    ELSE TextNone

\* The combo boxes of a router's column, as _create_combo_box makes them.
CreateComboBoxes(statistics) ==
    [key \in DOMAIN statistics |-> GetCurrentText(statistics[key])]

\* An element of FilterTable._data with the combo boxes of its column.
TableRouter(router_ip_address, statistics, bad_router) ==
    [router_ip_address |-> router_ip_address, statistics |-> statistics,
     bad_router |-> bad_router, combo_boxes |-> CreateComboBoxes(statistics)]

\* Mutant of NewComment: a comment that is not empty replaces the one the
\* table holds.
NewCommentLastWins(mac_and_targets, key, data) ==
    IF data.comment # <<>> THEN data.comment
    ELSE IF key \notin DOMAIN mac_and_targets THEN <<>>
    ELSE mac_and_targets[key]

\* The first loop of _update_data, for one key of the new statistics.
NewComment(mac_and_targets, key, data) ==
    IF /\ data.comment # <<>>
       /\ (key \notin DOMAIN mac_and_targets \/ mac_and_targets[key] = <<>>)
    THEN data.comment
    ELSE IF key \notin DOMAIN mac_and_targets THEN <<>>
    ELSE mac_and_targets[key]

\* _mac_and_targets after the first loop of _update_data.
MergedComments(mac_and_targets, new_router_statistics) ==
    [key \in DOMAIN mac_and_targets \cup DOMAIN new_router_statistics |->
        IF key \in DOMAIN new_router_statistics
        THEN NewComment(mac_and_targets, key, new_router_statistics[key])
        ELSE mac_and_targets[key]]

\* The last loop of _update_data for one router: every key of
\* _mac_and_targets the statistics lack gets the entry {}.
Padded(router_statistics, mac_and_targets) ==
    [key \in DOMAIN router_statistics \cup DOMAIN mac_and_targets |->
        IF key \in DOMAIN router_statistics THEN router_statistics[key]
        ELSE EmptyDict]

\* The last loop of _update_data over every element of _data, and the
\* columns _update_table builds from the result.
PaddedData(data, mac_and_targets) ==
    [k \in 1..Len(data) |->
        TableRouter(data[k].router_ip_address,
                    Padded(data[k].statistics, mac_and_targets),
                    data[k].bad_router)]

\* The order of sorted(..., key=lambda x: (x[0], x[1])) on the strings of
\* a key.
StringOrder == <<"", "DST", "M1", "M2", "SRC">>

Position(text) == CHOOSE k \in 1..Len(StringOrder) : StringOrder[k] = text

KeyLess(a, b) ==
    \/ Position(a[1]) < Position(b[1])
    \/ (a[1] = b[1] /\ Position(a[2]) < Position(b[2]))

\* The row of the table that shows a key: the rows of the filters start at
\* INITIAL_ROW_COUNT and stand in the sorted order of their keys.
INITIAL_ROW_COUNT == 2

RowOf(mac_and_targets, key) ==
    INITIAL_ROW_COUNT
        + Cardinality({k \in DOMAIN mac_and_targets : KeyLess(k, key)})

\* _add_filter_label: the FilterWidget with its comment, and the row that
\* partial(self.show_context_menu_for_filter, label_filter, row) keeps.
AddFilterLabel(row, comment) == [comment |-> comment, row |-> row]

\* _fill_column_with_filters: a label for every filter, in sorted order.
FillColumnWithFilters(mac_and_targets) ==
    [key \in DOMAIN mac_and_targets |->
        AddFilterLabel(RowOf(mac_and_targets, key), mac_and_targets[key])]

\* _add_router_label
AddRouterLabel(column, router_ip_address) ==
    [text |-> router_ip_address, column |-> column]

\* QTableWidget.removeColumn(column): a column the table lacks removes
\* nothing.
RemoveColumn(columns, column) ==
    IF column \in 1..Len(columns) THEN RemoveAt(columns, column - 1)
    ELSE columns

\* The first loop of _clear_content_in_table: while the table has more than
\* INITIAL_COLUMN_COUNT columns, the third column from the end goes.
RECURSIVE StripColumns(_)
StripColumns(columns) ==
    IF Len(columns) + 1 > INITIAL_COLUMN_COUNT
    THEN StripColumns(RemoveColumn(columns, Len(columns) + 1 - 3))
    ELSE columns

\* _clear_content_in_table: the columns, then removeCellWidget(1, 1).
ClearContentInTable(columns) ==
    IF StripColumns(columns) = <<>> THEN <<>>
    ELSE <<Heading("")>> \o Tail(StripColumns(columns))

\* The loop of _update_table over _data: _add_router inserts a column for
\* every router but the first and puts the label of router_index at column
\* router_index + 1.
UpdateTable(columns, data) ==
    IF data = <<>> \/ columns = <<>> THEN columns
    ELSE [k \in 1..Len(data) |-> AddRouterLabel(k, data[k].router_ip_address)]
             \o Tail(columns)

\* add_statistics: _update_data, then the table is cleared and built anew.
AddStatistics(tb, new_router_ip_address, new_router_statistics, bad_router) ==
    [tb EXCEPT
        !.columns = UpdateTable(ClearContentInTable(@),
                                Append(tb.data, [router_ip_address |->
                                                    new_router_ip_address])),
        !.mac_and_targets = MergedComments(@, new_router_statistics),
        !.labels = FillColumnWithFilters(
                      MergedComments(tb.mac_and_targets, new_router_statistics)),
        !.data = PaddedData(
                    Append(@, TableRouter(new_router_ip_address,
                                          new_router_statistics, bad_router)),
                    MergedComments(tb.mac_and_targets, new_router_statistics))]

\* _get_routers_with_filter
RoutersWithFilter(data, key) ==
    SelectSeq(data, LAMBDA d : ~d.bad_router /\ HasFilter(d.statistics, key))

\* Mutant of RoutersWithoutFilter: bad routers are not skipped.
RoutersWithoutFilterOrBad(data, key) ==
    SelectSeq(data, LAMBDA d : ~HasFilter(d.statistics, key))

\* _get_routers_without_filter
RoutersWithoutFilter(data, key) ==
    SelectSeq(data, LAMBDA d : ~d.bad_router /\ ~HasFilter(d.statistics, key))

\* One turn of the loop of add_filter_to_all_routers.  setCurrentText
\* changes the text of the combo box unless it already reads "Вкл"; the
\* change runs enable_filter, which emits filter_should_be_changed, before
\* filter_should_be_added is emitted.
DistributeTo(d, key, comment) ==
    (IF d.combo_boxes[key] # TextOn
     THEN <<FilterShouldBeChanged(d.router_ip_address, key[1], key[2], comment,
                                  "enable")>>
     ELSE <<>>)
    \o <<FilterShouldBeAdded(d.router_ip_address, key[1], key[2], comment)>>

RECURSIVE DistributeLoop(_, _, _)
DistributeLoop(without, key, comment) ==
    IF without = <<>> THEN <<>>
    ELSE DistributeTo(Head(without), key, comment)
         \o DistributeLoop(Tail(without), key, comment)

\* The combo boxes after add_filter_to_all_routers.
Distributed(data, key) ==
    [k \in 1..Len(data) |->
        IF ~data[k].bad_router /\ ~HasFilter(data[k].statistics, key)
        THEN [data[k] EXCEPT !.combo_boxes[key] = TextOn]
        ELSE data[k]]

\* What a slot of FilterTable leaves: the table and the signals it emitted.
TableOutcome(tb, events) == [table |-> tb, events |-> events]

\* add_filter_to_all_routers for the row of a key; the comment is the one
\* of the row's label (get_data).
AddFilterToAllRouters(tb, key) ==
    TableOutcome([tb EXCEPT !.data = Distributed(@, key)],
                 DistributeLoop(RoutersWithoutFilter(tb.data, key), key,
                                tb.labels[key].comment))

\* The new row of add_filter_to_table: the comment "", the entry {} in
\* the statistics of every router, a combo box in every column.
WithNewFilter(tb, key) ==
    [tb EXCEPT
        !.mac_and_targets = (key :> <<>>) @@ @,
        !.labels = (key :> AddFilterLabel(
                              RowOf((key :> <<>>) @@ tb.mac_and_targets, key),
                              <<>>)) @@ @,
        !.data = [k \in 1..Len(@) |->
                    [@[k] EXCEPT
                        !.statistics = (key :> EmptyDict) @@ @,
                        !.combo_boxes = (key :> GetCurrentText(EmptyDict)) @@ @]]]

\* add_filter_to_table: button.click() runs add_filter_to_all_routers.
AddFilterToTable(tb, mac_address, target) ==
    IF <<mac_address, target>> \in DOMAIN tb.mac_and_targets \/ tb.data = <<>>
    THEN TableOutcome(tb, <<>>)
    ELSE AddFilterToAllRouters(WithNewFilter(tb, <<mac_address, target>>),
                               <<mac_address, target>>)

\* dictionary.pop(key)
PopKey(dictionary, key) == [k \in DOMAIN dictionary \ {key} |-> dictionary[k]]

RECURSIVE DeleteLoopOver(_, _)
DeleteLoopOver(with, key) ==
    IF with = <<>> THEN <<>>
    ELSE <<FilterShouldBeDeleted(Head(with).router_ip_address, key[1], key[2])>>
         \o DeleteLoopOver(Tail(with), key)

\* delete_filter_from_all_routers for the row of a key.
DeleteFilterFromAllRouters(tb, key) ==
    TableOutcome(
        [tb EXCEPT
            !.mac_and_targets = PopKey(@, key),
            !.labels = PopKey(@, key),
            !.data = [k \in 1..Len(@) |->
                        [@[k] EXCEPT !.statistics = PopKey(@, key),
                                     !.combo_boxes = PopKey(@, key)]]],
        DeleteLoopOver(RoutersWithFilter(tb.data, key), key))

\* send_signal_to_update_table; the main window disables the table on
\* table_should_be_updated.  The columns stay until statistics arrive.
SendSignalToUpdateTable(tb) ==
    TableOutcome([EmptyTable EXCEPT !.columns = tb.columns],
                 <<TableShouldBeUpdated>>)

RouterShouldBeDeleted(router_ip_address) ==
    [signal |-> "router_should_be_deleted", router_ip_address |-> router_ip_address]

\* router_index of FilterTable.delete_router: the first element of _data
\* with the address (the loop breaks); 0 stands for None.
TableRouterIndex(data, router_ip_address) ==
    IF \E k \in 1..Len(data) : data[k].router_ip_address = router_ip_address
    THEN CHOOSE k \in 1..Len(data) :
            /\ data[k].router_ip_address = router_ip_address
            /\ \A j \in 1..(k - 1) : data[j].router_ip_address # router_ip_address
    ELSE 0

\* FilterTable.delete_router(column, router_ip_address): with more than one
\* router the column goes, else the content of the table, rows and all.
TableDeleteRouter(tb, column, router_ip_address) ==
    TableOutcome(
        [tb EXCEPT
            !.columns = IF Len(tb.data) > 1 THEN RemoveColumn(@, column)
                        ELSE ClearContentInTable(@),
            !.labels = IF Len(tb.data) > 1 THEN @ ELSE EmptyDict,
            !.data = Pop(@, TableRouterIndex(@, router_ip_address))],
        <<RouterShouldBeDeleted(router_ip_address)>>)

\* Whether the table has a row with that number below its two heading rows.
HasRow(tb, row) ==
    \E key \in DOMAIN tb.mac_and_targets : RowOf(tb.mac_and_targets, key) = row

\* The filter whose label and buttons are in a row: a button that is
\* clicked finds its row and reads the label of that row.
KeyInRow(tb, row) ==
    CHOOSE key \in DOMAIN tb.mac_and_targets : RowOf(tb.mac_and_targets, key) = row

\* show_context_menu_for_filter takes the buttons from the row its label
\* was created in; cellWidget gives None for a row the table does not
\* have, and None.click raises AttributeError before the menu is shown.
MenuRaises(tb, key) == ~HasRow(tb, tb.labels[key].row)

\* The action "delete" of the context menu: button_to_delete.click.
ContextMenuDelete(tb, key) ==
    IF MenuRaises(tb, key) THEN TableOutcome(tb, <<>>)
    ELSE DeleteFilterFromAllRouters(tb, KeyInRow(tb, tb.labels[key].row))

\* The action "distribute" of the context menu: button_to_distribute.click.
ContextMenuDistribute(tb, key) ==
    IF MenuRaises(tb, key) THEN TableOutcome(tb, <<>>)
    ELSE AddFilterToAllRouters(tb, KeyInRow(tb, tb.labels[key].row))

RECURSIVE CommentLoopOver(_, _, _)
CommentLoopOver(with, key, comment) ==
    IF with = <<>> THEN <<>>
    ELSE <<CommentShouldBeAdded(Head(with).router_ip_address, key[1], key[2],
                                comment)>>
         \o CommentLoopOver(Tail(with), key, comment)

\* _send_signals_to_change_filter_comment
SendSignalsToChangeFilterComment(data, key, comment) ==
    CommentLoopOver(RoutersWithFilter(data, key), key, comment)

\* show_dialog_window_for_filter, from the context menu of the label, when
\* the dialog is accepted: the signals, then filter_widget.set_comment.
ShowDialogWindowForFilter(tb, key, comment) ==
    IF MenuRaises(tb, key) THEN TableOutcome(tb, <<>>)
    ELSE TableOutcome([tb EXCEPT !.labels[key].comment = comment],
                      SendSignalsToChangeFilterComment(tb.data, key, comment))

\* What filter_added records for a router: the rule with the reported
\* state, or no rule when the state is unknown.
ReportedEntry(comment, disabled) ==
    IF disabled \in {"true", "false"}
    THEN [comment |-> comment, disabled |-> disabled]
    ELSE EmptyDict

\* change_filter_state_for_router: the slot of FilterTable that filter_added
\* is connected to.  It records the reported state for the router in the
\* row of the key, when the table has both.
ChangeFilterStateForRouter(tb, router_ip_address, key, comment, disabled) ==
    IF key \notin DOMAIN tb.mac_and_targets THEN tb
    ELSE [tb EXCEPT !.data =
            [k \in 1..Len(@) |->
                IF @[k].router_ip_address # router_ip_address THEN @[k]
                ELSE [@[k] EXCEPT
                        !.statistics[key] = ReportedEntry(comment, disabled),
                        !.combo_boxes[key] =
                            GetCurrentText(ReportedEntry(comment, disabled))]]]

----------------------------------------------------------------------------
(* The table at work.  The roster is loaded, the table has been cleared    *)
(* and table_should_be_updated waits for Routers.  Routers takes the       *)
(* signals of its queue one by one, FilterTable those of its own; while    *)
(* the table is enabled the user presses its buttons.                      *)

\* How many buttons the user presses.
MaxClicks == 2

\* The lists the devices hold when the table starts: nothing, a disabled
\* rule with a comment, a drop rule, and the rule of the same key without
\* a comment and with another comment.
TableDeviceLists ==
    {<<>>, <<Item("M1", None, "accept", "true", <<Letter>>)>>,
     <<Item(None, None, "drop", "false", <<>>)>>,
     <<Item("M1", None, "accept", "false", <<>>)>>,
     <<Item("M1", None, "accept", "false", <<Letter, Letter>>)>>}

\* The filters the user enters: one that devices may hold, and one that
\* none holds and whose row comes before the row of the first.
Keys == {<<"M1", "SRC">>, <<"M1", "DST">>}

\* What the network does to the session of a slot here: the constructor
\* raises, the link holds, or the link breaks after the first talk.
TableEnvs == {env \in Envs : ~env.breaks \/ env.left = 1}

TableIdle ==
    [op |-> "idle", router_ip_address |-> None, mac |-> None, target |-> None,
     disabled |-> None, before |-> EmptyTable, events |-> <<>>, ret |-> None,
     error |-> FALSE, clicks |-> 0]

\* What a slot that calls no driver returns and raises: nothing.
Silent == [ret |-> None, error |-> FALSE]

\* The record of a slot of FilterTable or of Routers that ran.
TableRan(op, router_ip_address, key, disabled, events, o, clicks) ==
    [op |-> op, router_ip_address |-> router_ip_address, mac |-> key[1],
     target |-> key[2], disabled |-> disabled, before |-> table,
     events |-> events, ret |-> o.ret, error |-> o.error, clicks |-> clicks]

InitTable ==
    /\ routers \in Rosters
    /\ default_data = DEFAULT_CONFIG_DATA
    /\ filters \in [GoodAddresses -> TableDeviceLists]
    /\ \A a \in GoodAddresses : ~InRoster(routers, a) => filters[a] = <<>>
    /\ last = TableIdle
    /\ config = NoFile
    /\ table = EmptyTable
    /\ signals = Queues(<<TableShouldBeUpdated>>, <<>>)

\* The signal Routers handles next.
Request == Head(signals.routers)

Waiting(signal) ==
    signals.routers # <<>> /\ Request.signal = signal

\* The signal FilterTable handles next.
Arrived == Head(signals.table)

Delivered(signal) ==
    signals.table # <<>> /\ Arrived.signal = signal

\* A slot of Routers ran on a request of the table with outcome o.
Worked(op, o) ==
    /\ filters' = FiltersAfter(Request.router_ip_address, o)
    /\ signals' = Queues(Tail(signals.routers), signals.table \o o.events)
    /\ last' = TableRan(op, Request.router_ip_address,
                        <<Request.mac, Request.target>>, None, o.events, o,
                        last.clicks)
    /\ UNCHANGED <<routers, default_data, config, table>>

\* table_should_be_updated -> Routers.get_statistics
on_table_should_be_updated ==
    /\ Waiting("table_should_be_updated")
    /\ \E envs \in [1..Len(routers) -> TableEnvs] :
          /\ signals' = Queues(Tail(signals.routers),
                               signals.table \o GetStatistics(envs).events)
          /\ last' = TableRan("get_statistics", None, <<None, None>>, None,
                              GetStatistics(envs).events, Silent, last.clicks)
    /\ UNCHANGED <<routers, default_data, filters, config, table>>

\* filter_should_be_added -> Routers.add_filter_to_router
on_filter_should_be_added ==
    /\ Waiting("filter_should_be_added")
    /\ \E env \in TableEnvs :
          Worked("add_filter_to_router",
                 AddFilterToRouter(Request.router_ip_address, Request.mac,
                                   Request.target, Request.comment, env))

\* filter_should_be_changed -> Routers.change_filter_state
on_filter_should_be_changed ==
    /\ Waiting("filter_should_be_changed")
    /\ \E env \in TableEnvs :
          Worked("change_filter_state",
                 ChangeFilterState(Request.router_ip_address, Request.mac,
                                   Request.target, Request.comment,
                                   Request.state, env))

\* filter_should_be_deleted -> Routers.delete_filter_from_router
on_filter_should_be_deleted ==
    /\ Waiting("filter_should_be_deleted")
    /\ \E env \in TableEnvs :
          Worked("delete_filter_from_router",
                 DeleteFilterFromRouter(Request.router_ip_address, Request.mac,
                                        Request.target, env))

\* comment_should_be_added -> Routers.add_comment_to_filter
on_comment_should_be_added ==
    /\ Waiting("comment_should_be_added")
    /\ \E env \in TableEnvs :
          Worked("add_comment_to_filter",
                 AddCommentToFilter(Request.router_ip_address, Request.mac,
                                    Request.target, Request.comment, env))

\* A slot of FilterTable handled the signal that arrived.
Handled(tb) ==
    /\ table' = tb
    /\ signals' = Queues(signals.routers, Tail(signals.table))
    /\ UNCHANGED <<routers, default_data, filters, config>>

\* statistics_received -> FilterTable.add_statistics
add_statistics ==
    /\ Delivered("statistics_received")
    /\ Handled(AddStatistics(table, Arrived.router_ip_address,
                             Arrived.statistics, Arrived.bad_router))
    /\ last' = TableRan("add_statistics", Arrived.router_ip_address,
                        <<None, None>>, None, <<>>, Silent, last.clicks)

\* statistics_finished -> enable_widgets(True)
on_statistics_finished ==
    /\ Delivered("statistics_finished")
    /\ Handled([table EXCEPT !.enabled = TRUE])
    /\ last' = TableRan("statistics_finished", None, <<None, None>>, None,
                        <<>>, Silent, last.clicks)

\* filter_added -> FilterTable.change_filter_state_for_router
change_filter_state_for_router ==
    /\ Delivered("filter_added")
    /\ Handled(ChangeFilterStateForRouter(table, Arrived.router_ip_address,
                                          <<Arrived.mac, Arrived.target>>,
                                          Arrived.comment, Arrived.disabled))
    /\ last' = TableRan("change_filter_state_for_router",
                        Arrived.router_ip_address,
                        <<Arrived.mac, Arrived.target>>, Arrived.disabled,
                        <<>>, Silent, last.clicks)

\* The user pressed a button, entered a filter or picked an action of a
\* context menu: the slot left outcome o and raised or not.
Pressed(op, key, o, raised) ==
    /\ table' = o.table
    /\ signals' = Queues(signals.routers \o o.events, signals.table)
    /\ last' = TableRan(op, None, key, None, o.events,
                        [ret |-> None, error |-> raised], last.clicks + 1)
    /\ UNCHANGED <<routers, default_data, filters, config>>

Clicked(op, key, o) == Pressed(op, key, o, FALSE)

\* The user may act: the table is enabled and presses are left.
MayClick == table.enabled /\ last.clicks < MaxClicks

\* mac_address_should_be_added -> FilterTable.add_filter_to_table
add_filter_to_table ==
    /\ MayClick
    /\ \E key \in Keys :
          Clicked("add_filter_to_table", key,
                  AddFilterToTable(table, key[1], key[2]))

\* The button of a row that distributes its filter.
add_filter_to_all_routers ==
    /\ MayClick
    /\ \E key \in DOMAIN table.mac_and_targets :
          Clicked("add_filter_to_all_routers", key,
                  AddFilterToAllRouters(table, key))

\* The button of a row that deletes its filter.
delete_filter_from_all_routers ==
    /\ MayClick
    /\ \E key \in DOMAIN table.mac_and_targets :
          Clicked("delete_filter_from_all_routers", key,
                  DeleteFilterFromAllRouters(table, key))

\* The button that updates the table.
send_signal_to_update_table ==
    /\ MayClick
    /\ Clicked("send_signal_to_update_table", <<None, None>>,
               SendSignalToUpdateTable(table))

\* The context menu of a filter's label, action "delete".
context_menu_delete ==
    /\ MayClick
    /\ \E key \in DOMAIN table.labels :
          Pressed("context_menu_delete", key, ContextMenuDelete(table, key),
                  MenuRaises(table, key))

\* The context menu of a filter's label, action "distribute".
context_menu_distribute ==
    /\ MayClick
    /\ \E key \in DOMAIN table.labels :
          Pressed("context_menu_distribute", key,
                  ContextMenuDistribute(table, key), MenuRaises(table, key))

\* The context menu of a filter's label, action "change comment", and the
\* dialog accepted with a comment.
show_dialog_window_for_filter ==
    /\ MayClick
    /\ \E key \in DOMAIN table.labels, comment \in Comments :
          /\ table' = ShowDialogWindowForFilter(table, key, comment).table
          /\ signals' = Queues(
                signals.routers
                    \o ShowDialogWindowForFilter(table, key, comment).events,
                signals.table)
          /\ last' = [comment |-> comment]
                      @@ TableRan("show_dialog_window_for_filter", None, key, None,
                                  ShowDialogWindowForFilter(table, key, comment).events,
                                  [ret |-> None, error |-> MenuRaises(table, key)],
                                  last.clicks + 1)
    /\ UNCHANGED <<routers, default_data, filters, config>>

NextTable ==
    \/ on_table_should_be_updated
    \/ on_filter_should_be_added
    \/ on_filter_should_be_changed
    \/ on_filter_should_be_deleted
    \/ on_comment_should_be_added
    \/ add_statistics
    \/ on_statistics_finished
    \/ change_filter_state_for_router
    \/ add_filter_to_table
    \/ add_filter_to_all_routers
    \/ delete_filter_from_all_routers
    \/ send_signal_to_update_table
    \/ context_menu_delete
    \/ context_menu_distribute
    \/ show_dialog_window_for_filter

SpecTable == InitTable /\ [][NextTable]_vars

----------------------------------------------------------------------------
(* The main window: the table and the reconciler as above, with the line   *)
(* edit that adds a router.  The devices of the roster hold the same list. *)

\* The addresses the user enters for a new router.
WindowAddresses == GoodAddresses \cup {ThirdAddress}

\* The rosters the window starts with.
WindowRosters ==
    {<<Router("10.0.0.1")>>, <<Router("10.0.0.1"), Router("10.0.0.2")>>}

\* The list every device of the roster holds when the window starts.
WindowDeviceLists == {<<>>, <<Item("M1", None, "accept", "true", <<Letter>>)>>}

RouterIpAddressShouldBeAdded(text) ==
    [signal |-> "router_ip_address_should_be_added", router_ip_address |-> text]

InitWindow ==
    /\ routers \in WindowRosters
    /\ default_data = DEFAULT_CONFIG_DATA
    /\ \E items \in WindowDeviceLists :
          filters = [a \in WindowAddresses |->
                        IF InRoster(routers, a) THEN items ELSE <<>>]
    /\ last = TableIdle
    /\ config = NoFile
    /\ table = EmptyTable
    /\ signals = Queues(<<TableShouldBeUpdated>>, <<>>)

\* A slot of Routers that changes the roster ran with outcome o.
RosterWorked(op, o) ==
    /\ routers' = o.routers
    /\ config' = IF o.saved THEN SavedFile(default_data, o.routers) ELSE config
    /\ signals' = Queues(Tail(signals.routers), signals.table \o o.events)
    /\ last' = TableRan(op, Request.router_ip_address, <<None, None>>, None,
                        o.events, [ret |-> None, error |-> o.raised],
                        last.clicks)
    /\ UNCHANGED <<default_data, filters, table>>

\* The line edit of the main window: add_router_ip_address emits
\* router_ip_address_should_be_added.
add_router_ip_address ==
    /\ MayClick
    /\ \E text \in WindowAddresses :
          /\ signals' = Queues(Append(signals.routers,
                                      RouterIpAddressShouldBeAdded(text)),
                               signals.table)
          /\ last' = TableRan("add_router_ip_address", text, <<None, None>>,
                              None, <<RouterIpAddressShouldBeAdded(text)>>,
                              Silent, last.clicks + 1)
    /\ UNCHANGED <<routers, default_data, filters, config, table>>

\* router_ip_address_should_be_added -> Routers.add_ip_address
on_router_ip_address_should_be_added ==
    /\ Waiting("router_ip_address_should_be_added")
    /\ RosterWorked("add_ip_address", AddIpAddress(Request.router_ip_address))

\* router_ip_address_added -> FilterTable.send_signal_to_update_table
on_router_ip_address_added ==
    /\ Delivered("router_ip_address_added")
    /\ table' = SendSignalToUpdateTable(table).table
    /\ signals' = Queues(signals.routers \o SendSignalToUpdateTable(table).events,
                         Tail(signals.table))
    /\ last' = TableRan("router_ip_address_added", None, <<None, None>>, None,
                        SendSignalToUpdateTable(table).events, Silent,
                        last.clicks)
    /\ UNCHANGED <<routers, default_data, filters, config>>

NextWindow ==
    \/ NextTable
    \/ add_router_ip_address
    \/ on_router_ip_address_should_be_added
    \/ on_router_ip_address_added

SpecWindow == InitWindow /\ [][NextWindow]_vars

----------------------------------------------------------------------------
(* The columns of the routers: the table is filled by statistics cycles    *)
(* and the user deletes routers by the context menus of their labels.      *)

\* The rosters whose routers the user deletes.
ColumnRosters ==
    {<<Router("10.0.0.1"), Router("10.0.0.2")>>,
     <<Router("10.0.0.1"), Router("10.0.0.2"), Router(ThirdAddress)>>}

InitColumns ==
    /\ routers \in ColumnRosters
    /\ default_data = DEFAULT_CONFIG_DATA
    /\ \E items \in WindowDeviceLists :
          filters = [a \in WindowAddresses |->
                        IF InRoster(routers, a) THEN items ELSE <<>>]
    /\ last = TableIdle
    /\ config = NoFile
    /\ table = EmptyTable
    /\ signals = Queues(<<TableShouldBeUpdated>>, <<>>)

\* The context menu of the label that stands in a column, action "delete":
\* delete_router runs with the column the label was made with.
show_context_menu_for_router ==
    /\ MayClick
    /\ \E stands \in 1..Len(table.columns) :
          /\ table.columns[stands].column # 0
          /\ table' = TableDeleteRouter(table, table.columns[stands].column,
                                        table.columns[stands].text).table
          /\ signals' = Queues(
                signals.routers
                    \o TableDeleteRouter(table, table.columns[stands].column,
                                         table.columns[stands].text).events,
                signals.table)
          /\ last' = [stands |-> stands]
                      @@ TableRan("show_context_menu_for_router",
                                  table.columns[stands].text, <<None, None>>,
                                  None,
                                  TableDeleteRouter(table,
                                                    table.columns[stands].column,
                                                    table.columns[stands].text).events,
                                  Silent, last.clicks + 1)
    /\ UNCHANGED <<routers, default_data, filters, config>>

\* router_should_be_deleted -> Routers.delete_router
on_router_should_be_deleted ==
    /\ Waiting("router_should_be_deleted")
    /\ RosterWorked("delete_router", DeleteRouter(Request.router_ip_address))

NextColumns ==
    \/ on_table_should_be_updated
    \/ add_statistics
    \/ on_statistics_finished
    \/ send_signal_to_update_table
    \/ show_context_menu_for_router
    \/ on_router_should_be_deleted

SpecColumns == InitColumns /\ [][NextColumns]_vars

----------------------------------------------------------------------------
(* The text of a comment on its way to the device and back.  add_filter    *)
(* and add_comment send _encode_text(comment); the device keeps what it    *)
(* was sent and a listing reads it with _decode_text.                      *)

\* How long the texts are.
MaxText == 3

\* The texts: Latin letters, double quotes and backslashes.
Texts == SeqsUpTo({Letter, Quote, Backslash}, MaxText)

InitText ==
    /\ routers = <<>>
    /\ default_data = EmptyDict
    /\ filters = [a \in GoodAddresses |-> <<>>]
    /\ config = NoFile
    /\ table = EmptyTable
    /\ signals = <<>>
    /\ \E text \in Texts : last = [op |-> "idle", text |-> text]

\* _encode_text of the comment: what is sent and what the device keeps.
encode_text ==
    /\ last.op = "idle"
    /\ last' = [op |-> "_encode_text", text |-> last.text,
                sent |-> EncodeText(last.text)]
    /\ UNCHANGED <<routers, default_data, filters, config, table, signals>>

\* _decode_text of what the device keeps.
decode_text ==
    /\ last.op = "_encode_text"
    /\ last' = [op |-> "_decode_text", text |-> last.text, sent |-> last.sent,
                ok |-> DecodeText(last.sent).ok,
                read |-> DecodeText(last.sent).text]
    /\ UNCHANGED <<routers, default_data, filters, config, table, signals>>

NextText ==
    \/ encode_text
    \/ decode_text

SpecText == InitText /\ [][NextText]_vars

----------------------------------------------------------------------------
(* The driver and another party on the same device.  Every method that     *)
(* changes a filter prints the list, works out indices from the reply and  *)
(* then sends commands that carry those indices; the device takes each     *)
(* command when it arrives.  Between the print and the commands another    *)
(* party (an administrator, a second copy of the program) may add or       *)
(* remove a rule.                                                          *)

\* The methods that address rules by the indices of their own listing.
IndexedMethods == {"delete_filter", "enable_filter", "add_comment", "move_filter"}

\* A link that stays up.
LinkUp == [conn |-> TRUE, breaks |-> FALSE, left |-> 0]

InitRace ==
    /\ routers = <<>>
    /\ default_data = EmptyDict
    /\ \E items \in DeviceLists : filters = [a \in GoodAddresses |-> items]
    /\ config = NoFile
    /\ table = EmptyTable
    /\ signals = <<>>
    /\ last = [op |-> "idle"]

\* The session a method starts on: move_filter is sent by
\* add_filter_to_router after it added the filter.
Started(method, items, mac_address, target, comment) ==
    IF method = "move_filter"
    THEN AddFilter(Session(items, LinkUp), mac_address, target, comment).s
    ELSE Session(items, LinkUp)

\* The listing of a method: the print and the statistics built from it.
list_filters ==
    /\ last.op = "idle"
    /\ \E router_ip_address \in GoodAddresses, method \in IndexedMethods,
          mac_address \in Macs, target \in Targets, state \in ToggleStates,
          comment \in Comments :
          /\ method # "enable_filter" => state = "enable"
          /\ method \notin {"add_comment", "move_filter"} => comment = <<>>
          /\ last' = [op |-> "listed", method |-> method,
                      router_ip_address |-> router_ip_address,
                      mac |-> mac_address, target |-> target,
                      state |-> state, comment |-> comment, raced |-> FALSE,
                      got |-> GetTotalStatistics(
                                  Started(method, filters[router_ip_address],
                                          mac_address, target, comment),
                                  method)]
          /\ filters' = [filters EXCEPT ![router_ip_address] = last'.got.s.items]
    /\ UNCHANGED <<routers, default_data, config, table, signals>>

\* Another party puts a rule into the list of the device, at any place.
other_party_adds ==
    /\ last.op = "listed" /\ ~last.raced
    /\ \E item \in DeviceItems, i \in 0..Len(filters[last.router_ip_address]) :
          filters' = [filters EXCEPT ![last.router_ip_address] = InsertAt(@, i, item)]
    /\ last' = [last EXCEPT !.raced = TRUE]
    /\ UNCHANGED <<routers, default_data, config, table, signals>>

\* Another party removes a rule of the device.
other_party_removes ==
    /\ last.op = "listed" /\ ~last.raced
    /\ \E i \in 0..(Len(filters[last.router_ip_address]) - 1) :
          filters' = [filters EXCEPT ![last.router_ip_address] = RemoveAt(@, i)]
    /\ last' = [last EXCEPT !.raced = TRUE]
    /\ UNCHANGED <<routers, default_data, config, table, signals>>

\* The listing as the method holds it, on the device as it is now.
Resumed(got, items) ==
    [s |-> [got.s EXCEPT !.items = items], statistics |-> got.statistics]

\* The session after the commands the method sends from its listing.
Continued(method, got, mac_address, target, state, comment) ==
    CASE method = "delete_filter" -> DeleteListed(got, mac_address, target).s
      [] method = "enable_filter" -> ToggleListed(got, mac_address, target, state).s
      [] method = "add_comment" -> CommentListed(got, mac_address, target, comment).s
      [] method = "move_filter" ->
            MoveBeforeDrop(DropListed(got), LastIndex(OwnListed(got, mac_address, target)))

\* The commands of the method reach the device.
send_commands ==
    /\ last.op = "listed"
    /\ last' = [op |-> "sent", method |-> last.method,
                router_ip_address |-> last.router_ip_address,
                mac |-> last.mac, target |-> last.target, raced |-> last.raced,
                before |-> filters[last.router_ip_address],
                s |-> Continued(last.method,
                                Resumed(last.got, filters[last.router_ip_address]),
                                last.mac, last.target, last.state, last.comment)]
    /\ filters' = [filters EXCEPT ![last.router_ip_address] = last'.s.items]
    /\ UNCHANGED <<routers, default_data, config, table, signals>>

NextRace ==
    \/ list_filters
    \/ other_party_adds
    \/ other_party_removes
    \/ send_commands

SpecRace == InitRace /\ [][NextRace]_vars

----------------------------------------------------------------------------
(* Vocabulary of the properties.                                           *)

\* The list of the addressed device before and after the slot that ran.
Before == last.before[last.router_ip_address]
After == filters[last.router_ip_address]

\* The key (mac, target) of an item of a device's list.
KeyOf(item) == <<GetMacAndTarget(item).mac, GetMacAndTarget(item).target>>
RequestedKey == <<last.mac, last.target>>

\* The 0-based numbers of the items of a list that have the requested key.
MatchingNumbers(items) == {k - 1 : k \in {j \in 1..Len(items) : KeyOf(items[j]) = RequestedKey}}

\* The slot ran on an open session and no exception interrupted it.
Completed(op) == last.op = op /\ last.connected /\ ~last.error

\* items without the items whose number is in nums.
RECURSIVE Without(_, _)
Without(items, nums) ==
    IF items = <<>> THEN <<>>
    ELSE LET n == Len(items)
             front == Without(SubSeq(items, 1, n - 1), nums)
         IN  IF n - 1 \in nums THEN front ELSE Append(front, items[n])

----------------------------------------------------------------------------
(* C1. delete_filter removes every rule whose key is the requested key and *)
(* no other rule, keeps the order of the rest, returns True exactly when   *)
(* a rule matched, and sends no remove command when none matched.          *)
C1_DeleteRemovesExactlyMatching ==
    Completed("delete_filter_from_router") =>
        /\ After = Without(Before, MatchingNumbers(Before))
        /\ MatchingNumbers(After) = {}
        /\ (last.ret = "True") <=> (MatchingNumbers(Before) # {})
        /\ (last.ret = "False") <=> (MatchingNumbers(Before) = {})
        /\ MatchingNumbers(Before) = {} =>
              \A k \in 1..Len(last.cmds) : last.cmds[k].cmd # "remove"

\* Two rules of the key were removed in one call.
C1_Witness ==
    /\ Completed("delete_filter_from_router")
    /\ Cardinality(MatchingNumbers(Before)) >= 2
    /\ last.ret = "True"
    /\ After = <<>>

\* A call that matched nothing on a device that holds rules.
C1_WitnessNoMatch ==
    /\ Completed("delete_filter_from_router")
    /\ Before # <<>>
    /\ last.ret = "False"

(* C2. One delete_filter call takes exactly one listing, first; the remove *)
(* commands after it carry strictly decreasing numbers, each the position  *)
(* of a matching rule in that listing.                                     *)
C2_DeleteOneListingDescending ==
    Completed("delete_filter_from_router") =>
        /\ Len(last.cmds) >= 1
        /\ last.cmds[1].cmd = "print"
        /\ \A k \in 2..Len(last.cmds) :
              /\ last.cmds[k].cmd = "remove"
              /\ Len(last.cmds[k].numbers) = 1
              /\ last.cmds[k].numbers[1] \in MatchingNumbers(Before)
        /\ \A k \in 2..(Len(last.cmds) - 1) :
              last.cmds[k].numbers[1] > last.cmds[k + 1].numbers[1]

\* A call that sent two removes after its listing.
C2_Witness ==
    /\ Completed("delete_filter_from_router")
    /\ Len(last.cmds) = 3
    /\ last.cmds[2].numbers[1] = 1
    /\ last.cmds[3].numbers[1] = 0

\* The position (1-based) of the first drop rule of a list; 0 when none.
FirstDrop(items) ==
    IF \E k \in 1..Len(items) : items[k].action = "drop"
    THEN CHOOSE k \in 1..Len(items) :
            /\ items[k].action = "drop"
            /\ \A j \in 1..(k - 1) : items[j].action # "drop"
    ELSE 0

\* The position at which the new rule of a successful add must sit.
ExpectedPosition == IF FirstDrop(Before) = 0 THEN Len(Before) + 1 ELSE FirstDrop(Before)

(* C3. After a successful add_filter_to_router the new rule sits where the *)
(* first drop rule was: every rule that was a drop rule has a greater      *)
(* index than the new rule, and the old rules keep their order.  Without   *)
(* a drop rule the new rule is last.                                       *)
C3_AddSitsBeforeFirstDrop ==
    Completed("add_filter_to_router") =>
        /\ Len(After) = Len(Before) + 1
        /\ KeyOf(After[ExpectedPosition]) = RequestedKey
        /\ After[ExpectedPosition].action = "accept"
        /\ \A k \in 1..Len(Before) :
              IF k < ExpectedPosition THEN After[k] = Before[k]
              ELSE After[k + 1] = Before[k]
        /\ \A k \in 1..Len(Before) :
              Before[k].action = "drop" =>
                 \E j \in (ExpectedPosition + 1)..Len(After) : After[j] = Before[k]

\* The scenario [accept, drop] -> [accept, new, drop].
C3_Witness ==
    /\ Completed("add_filter_to_router")
    /\ Len(Before) = 2
    /\ Before[1].action = "accept"
    /\ Before[2].action = "drop"
    /\ KeyOf(After[2]) = RequestedKey
    /\ After[3] = Before[2]

\* An add on a device with no drop rule: the new rule is last.
C3_WitnessNoDrop ==
    /\ Completed("add_filter_to_router")
    /\ Len(Before) = 2
    /\ FirstDrop(Before) = 0
    /\ KeyOf(After[3]) = RequestedKey

(* C4. A successful add makes the number of rules with the key grow by     *)
(* exactly one; the added rule has action accept, chain forward and        *)
(* disabled=false, and the rules that were there are unchanged.            *)
C4_AddExactlyOneAcceptRule ==
    Completed("add_filter_to_router") =>
        /\ Cardinality(MatchingNumbers(After)) = Cardinality(MatchingNumbers(Before)) + 1
        /\ \E p \in 1..Len(After) :
              /\ Without(After, {p - 1}) = Before
              /\ KeyOf(After[p]) = RequestedKey
              /\ After[p].action = "accept"
              /\ After[p].chain = "forward"
              /\ After[p].disabled = "false"
        /\ \A a \in GoodAddresses :
              a # last.router_ip_address => filters[a] = last.before[a]

\* An add of a key the device already holds a disabled rule for.
C4_Witness ==
    /\ Completed("add_filter_to_router")
    /\ Cardinality(MatchingNumbers(Before)) = 1
    /\ Before[1].disabled = "true"
    /\ Cardinality(MatchingNumbers(After)) = 2

\* The smallest number of a nonempty set of numbers.
Lowest(nums) == CHOOSE n \in nums : \A m \in nums : n <= m

\* The enable_filter call of the slot returned (no exception interrupted it).
EnableFilterReturned ==
    last.op = "change_filter_state" /\ last.connected /\ last.ret # "raised"

\* The enable/disable commands the slot sent.
ToggleCmds == SelectSeq(last.cmds, LAMBDA c : c.cmd \in ToggleStates)

\* The list with the disabled field of item number n set as `state` asks.
Toggled(items, n, state) ==
    [k \in 1..Len(items) |->
        IF k = n + 1
        THEN [items[k] EXCEPT !.disabled = IF state = "disable" THEN "true" ELSE "false"]
        ELSE items[k]]

(* C5, the part the code keeps: enable_filter sends exactly one            *)
(* enable/disable command, addressed to the first rule of the key, leaves  *)
(* every other rule as it was, sends nothing when no rule matches, and     *)
(* never sends an add command.                                             *)
C5_TogglesOnlyFirstMatch ==
    EnableFilterReturned =>
        /\ \A k \in 1..Len(last.cmds) : last.cmds[k].cmd # "add"
        /\ IF MatchingNumbers(Before) # {}
           THEN /\ Len(ToggleCmds) = 1
                /\ ToggleCmds[1].cmd = last.state
                /\ ToggleCmds[1].numbers = <<Lowest(MatchingNumbers(Before))>>
                /\ After = Toggled(Before, Lowest(MatchingNumbers(Before)), last.state)
           ELSE /\ ToggleCmds = <<>>
                /\ After = Before

(* C5. enable_filter toggles the first rule of the key with one command    *)
(* and leaves the rest alone; it returns a true result when a rule was     *)
(* toggled and False when no rule matches, and sends no add command.       *)
C5_EnableTogglesFirstAndReports ==
    EnableFilterReturned =>
        /\ C5_TogglesOnlyFirstMatch
        /\ MatchingNumbers(Before) # {} => Truthy(last.ret)
        /\ MatchingNumbers(Before) = {} => ~Truthy(last.ret)

(* C6. add_comment takes one listing; when rules match it sends exactly    *)
(* one comment command whose numbers are the numbers of all the matching   *)
(* rules of that listing and returns True; when none matches it sends      *)
(* nothing more and returns False.                                         *)
C6_CommentOneBatchedCommand ==
    Completed("add_comment_to_filter") =>
        /\ Len(last.cmds) >= 1
        /\ last.cmds[1].cmd = "print"
        /\ IF MatchingNumbers(Before) # {}
           THEN /\ Len(last.cmds) = 2
                /\ last.cmds[2].cmd = "comment"
                /\ {last.cmds[2].numbers[k] : k \in 1..Len(last.cmds[2].numbers)}
                      = MatchingNumbers(Before)
                /\ Len(last.cmds[2].numbers) = Cardinality(MatchingNumbers(Before))
                /\ last.ret = "True"
           ELSE /\ Len(last.cmds) = 1
                /\ last.ret = "False"

\* A comment put on two rules of the key with one command.
C6_Witness ==
    /\ Completed("add_comment_to_filter")
    /\ MatchingNumbers(Before) = {0, 1}
    /\ last.comment = <<Letter>>
    /\ last.ret = "True"
    /\ After[1].comment = <<Letter>> /\ After[2].comment = <<Letter>>

(* C7. Every slot that opens a driver session closes it before it returns, *)
(* on the success path and on every failure path.                          *)
C7_EverySessionClosed ==
    last.op # "idle" => last.closed = last.opened

(* C8. A failure to resolve credentials, to open the session or of a       *)
(* driver call never raises out of a per-device slot.                      *)
C8_NoSlotRaises ==
    last.op # "idle" => ~last.raised

(* C9. A refresh cycle over a roster of n devices emits n                  *)
(* statistics_received signals, one per device in roster order, and then   *)
(* one statistics_finished signal, whatever devices failed; no exception   *)
(* leaves the cycle, so every cycle that starts emits statistics_finished. *)
C9_CycleReportsEveryDeviceThenFinishes ==
    last.op = "get_statistics" =>
        /\ Len(last.events) = Len(routers) + 1
        /\ \A k \in 1..Len(routers) :
              /\ last.events[k].signal = "statistics_received"
              /\ last.events[k].router_ip_address = str(routers[k].ip_address)
        /\ last.events[Len(routers) + 1].signal = "statistics_finished"
        /\ ~last.raised

\* A cycle over two devices of which the first failed and the second answered.
C9_Witness ==
    /\ last.op = "get_statistics"
    /\ Len(routers) = 2
    /\ last.events[1].bad_router
    /\ ~last.events[2].bad_router
    /\ last.events[3].signal = "statistics_finished"

\* The network made the k-th device of the cycle fail: no connection, or the
\* link broke before the listing.
FailedInCycle(k) ==
    ~last.envs[k].conn \/ (last.envs[k].breaks /\ last.envs[k].left = 0)

FailedNumbers == {k - 1 : k \in {j \in 1..Len(routers) : FailedInCycle(j)}}

\* The cycle as it would run were the failing devices not in the roster.
CycleWithoutFailed ==
    GetStatisticsOver(Without(routers, FailedNumbers), Without(last.envs, FailedNumbers))

\* A sequence in the opposite order.
Backwards(seq) == [k \in 1..Len(seq) |-> seq[Len(seq) + 1 - k]]

\* The cycle as it would run over the roster in the opposite order.
CycleReversed == GetStatisticsOver(Backwards(routers), Backwards(last.envs))

(* C10. In a refresh cycle a failing device is reported with bad=true and  *)
(* an empty mapping, and the cycle goes on: what is reported for the other *)
(* devices is what would be reported were the failing devices not in the   *)
(* roster, and does not depend on the order of the devices.                *)
C10_FailureIsolatedPerDevice ==
    last.op = "get_statistics" =>
        /\ \A k \in 1..Len(routers) :
              FailedInCycle(k) <=> last.events[k].bad_router
        /\ \A k \in 1..Len(routers) :
              FailedInCycle(k) => DOMAIN last.events[k].statistics = {}
        /\ Without(last.events, FailedNumbers) = CycleWithoutFailed.events
        /\ \A k \in 1..Len(routers) :
              CycleReversed.events[Len(routers) + 1 - k] = last.events[k]

\* The first device failed and the second reported a rule it holds.
C10_Witness ==
    /\ last.op = "get_statistics"
    /\ Len(routers) = 2
    /\ FailedInCycle(1) /\ ~FailedInCycle(2)
    /\ last.events[1].bad_router
    /\ DOMAIN last.events[2].statistics # {}

----------------------------------------------------------------------------
\* The slots that work on one device.
PerDeviceOps ==
    {"add_filter_to_router", "change_filter_state", "delete_filter_from_router",
     "add_comment_to_filter"}

(* C13. A per-device slot called with an address that is malformed or not  *)
(* in the roster opens no session and sends no command, and leaves the     *)
(* roster and every device's list as they were.                            *)
C13_UnknownAddressRejectedBeforeIO ==
    [][(/\ last'.op \in PerDeviceOps
        /\ ~UserAndPasswordIn(routers, last'.router_ip_address).ok)
       => (/\ last'.opened = 0
           /\ last'.cmds = <<>>
           /\ routers' = routers
           /\ filters' = filters)]_vars

\* A delete called with a well-formed address the roster does not hold, on
\* a link that would have connected.
C13_Witness ==
    /\ last.op = "delete_filter_from_router"
    /\ last.router_ip_address = "10.0.0.2"
    /\ ~InRoster(routers, "10.0.0.2")
    /\ ~last.connected /\ last.cmds = <<>>
    /\ filters = last.before

(* C20. change_filter_state for a key that has no rule on the reachable    *)
(* device adds a rule for the key with the requested state: afterwards     *)
(* the device holds exactly one rule of the key, disabled for "disable"    *)
(* and enabled for "enable", and nothing raises out of the slot.           *)
C20_AbsentKeyFallsBackToAdd ==
    (EnableFilterReturned /\ MatchingNumbers(Before) = {}) =>
        /\ ~last.raised
        /\ Cardinality(MatchingNumbers(After)) = 1
        /\ \A n \in MatchingNumbers(After) :
              After[n + 1].disabled = IF last.state = "disable" THEN "true" ELSE "false"

----------------------------------------------------------------------------
(* Vocabulary of the roster properties.                                    *)

\* The slots that run a statistics cycle.
CycleOps == {"read_config_file", "get_statistics"}

\* The address a roster slot was called with.
RequestedAddress == ip_address(last.router_ip_address)

NoAddressTwice(rs) ==
    \A i, j \in 1..Len(rs) : rs[i].ip_address = rs[j].ip_address => i = j

\* Ascending order of the addresses that can be compared: those of the
\* same version.
Ascending(rs) ==
    \A i, j \in 1..Len(rs) :
        (i < j /\ rs[i].ip_address.version = rs[j].ip_address.version)
            => rs[i].ip_address.value < rs[j].ip_address.value

(* C12, as stated: the resolver returns the device's own user and password *)
(* when both overrides are set, and the fleet defaults for both fields     *)
(* otherwise.                                                              *)
C12_OverridesOnlyWhenBothSet ==
    last.op \in CycleOps =>
        \A k \in 1..Len(last.logins) :
            last.logins[k].ok =>
                IF routers[k].user # None /\ routers[k].password # None
                THEN /\ last.logins[k].user = routers[k].user
                     /\ last.logins[k].password = routers[k].password
                ELSE /\ last.logins[k].user = default_data.user
                     /\ last.logins[k].password = default_data.password

(* C12, amended: for every roster device the resolver takes each field on  *)
(* its own, the device's override when it is set and the fleet default of  *)
(* that field otherwise; it raises only when a default it needs is not     *)
(* loaded; the cycle that calls it leaves the roster as it was.            *)
C12_EachFieldFallsBackOnItsOwn ==
    last.op \in CycleOps =>
        /\ Len(last.logins) = Len(routers)
        /\ last.op = "get_statistics" => routers = last.before
        /\ \A k \in 1..Len(routers) :
              /\ last.logins[k].ok <=>
                    \/ default_data # EmptyDict
                    \/ (routers[k].user # None /\ routers[k].password # None)
              /\ last.logins[k].ok =>
                    /\ last.logins[k].user =
                          IF routers[k].user # None THEN routers[k].user
                          ELSE default_data.user
                    /\ last.logins[k].password =
                          IF routers[k].password # None THEN routers[k].password
                          ELSE default_data.password

\* A device with a user override and no password override was resolved to
\* its own user and the default password.
C12_Witness ==
    /\ last.op = "get_statistics"
    /\ \E k \in 1..Len(routers) :
          /\ routers[k].user = "u" /\ routers[k].password = None
          /\ last.logins[k].ok
          /\ last.logins[k].user = "u"
          /\ last.logins[k].password = default_data.password

(* C14. add_ip_address with a malformed address or one the roster holds    *)
(* leaves the roster as it was, emits nothing and does not save; with a    *)
(* new well-formed address it inserts exactly one router without           *)
(* overrides, emits router_ip_address_added once and saves.  No address    *)
(* is ever twice in the roster.                                            *)
C14_AddIpAddressInsertsOnceAndPersists ==
    /\ NoAddressTwice(routers)
    /\ last.op = "add_ip_address" =>
          IF \/ RequestedAddress.version = 0
             \/ IsThereAlreadyRouter(last.before, RequestedAddress)
          THEN /\ routers = last.before
               /\ last.events = <<>>
               /\ ~last.saved /\ config = last.file
          ELSE /\ Len(routers) = Len(last.before) + 1
               /\ \E k \in 1..Len(routers) :
                     /\ routers[k] = Router(last.router_ip_address)
                     /\ RemoveAt(routers, k - 1) = last.before
               /\ last.events = <<RouterIpAddressAdded>>
               /\ last.saved /\ config = SavedFile(default_data, routers)

(* C15. After any sequence of read_config_file, add_ip_address,            *)
(* delete_router and set_new_default_data_and_routers the roster is in     *)
(* ascending address order, and a statistics cycle reports the devices in  *)
(* the order of the roster.                                                *)
C15_RosterAlwaysAscending ==
    /\ Ascending(routers)
    /\ last.op \in CycleOps =>
          \A k \in 1..Len(routers) :
              /\ Len(last.events) > k
              /\ last.events[k].router_ip_address = str(routers[k].ip_address)

(* C16. delete_router removes the roster entry with the address and no     *)
(* other, keeps the order of the rest, saves the roster when the address   *)
(* is well-formed, and opens no session and sends no command.              *)
C16_DeleteRouterRemovesOnlyThatEntry ==
    last.op = "delete_router" =>
        /\ routers = SelectSeq(last.before,
                               LAMBDA r : r.ip_address # RequestedAddress)
        /\ Len(routers) >= Len(last.before) - 1
        /\ RequestedAddress.version # 0 =>
              (last.saved /\ config = SavedFile(default_data, routers))
        /\ last.opened = 0 /\ last.cmds = <<>> /\ last.events = <<>>
        /\ ~last.raised

\* The first of three routers was removed and the two after it stayed.
C16_Witness ==
    /\ last.op = "delete_router"
    /\ Len(last.before) = 3
    /\ last.before[1].ip_address = RequestedAddress
    /\ routers = SubSeq(last.before, 2, 3)
    /\ last.saved

(* C11. After a refresh cycle the table holds no entry, for any key, of a  *)
(* router that was reported as bad: neither a rule nor an empty entry,     *)
(* whatever the other routers reported.                                    *)
C11_BadRouterHasNoEntry ==
    last.op = "statistics_finished" =>
        \A k \in 1..Len(table.data) :
            table.data[k].bad_router => DOMAIN table.data[k].statistics = {}

\* The key of the row the last slot worked on.
TableKey == <<last.mac, last.target>>

\* The requests of one kind among the signals the last slot emitted.
Requests(signal) == SelectSeq(last.events, LAMBDA e : e.signal = signal)

\* The addresses of the routers of the table, before the last slot, that
\* answered in the last cycle and for which the table holds no rule with
\* the key.
ReachableLacking(key) ==
    {last.before.data[k].router_ip_address :
        k \in {j \in 1..Len(last.before.data) :
                 /\ ~last.before.data[j].bad_router
                 /\ \/ key \notin DOMAIN last.before.data[j].statistics
                    \/ last.before.data[j].statistics[key] = EmptyDict}}

(* C17. add_filter_to_all_routers emits filter_should_be_added, with the   *)
(* key of its row, once for every router that was not bad in the last      *)
(* cycle and has no rule with the key in the table, and for no other.      *)
C17_DistributeAsksReachableLacking ==
    last.op = "add_filter_to_all_routers" =>
        /\ {Requests("filter_should_be_added")[k].router_ip_address :
               k \in 1..Len(Requests("filter_should_be_added"))}
           = ReachableLacking(TableKey)
        /\ Len(Requests("filter_should_be_added"))
           = Cardinality(ReachableLacking(TableKey))
        /\ \A k \in 1..Len(Requests("filter_should_be_added")) :
              /\ Requests("filter_should_be_added")[k].mac = last.mac
              /\ Requests("filter_should_be_added")[k].target = last.target

\* Of two reachable routers one had the key: only the other was asked.
C17_Witness ==
    /\ last.op = "add_filter_to_all_routers"
    /\ Len(last.before.data) = 2
    /\ \A k \in 1..2 : ~last.before.data[k].bad_router
    /\ \E k \in 1..2 : last.before.data[k].statistics[TableKey] # EmptyDict
    /\ Len(Requests("filter_should_be_added")) = 1

\* Of two routers one had the key and the other, which lacked it, was bad:
\* nobody was asked.
C17_WitnessBad ==
    /\ last.op = "add_filter_to_all_routers"
    /\ Len(last.before.data) = 2
    /\ \E k \in 1..2 :
          /\ last.before.data[k].bad_router
          /\ last.before.data[k].statistics[TableKey] = EmptyDict
    /\ last.events = <<>>

C18_WitnessFailed ==
    /\ last.op = "add_filter_to_router"
    /\ last.error
    /\ last.events[1].disabled = "-"

(* C19. When delete_filter_from_all_routers asked routers to delete the    *)
(* filter, the key stays in the table until one of them has confirmed a    *)
(* deletion.                                                               *)
C19_KeyStaysUntilConfirmed ==
    (last.op = "delete_filter_from_all_routers" /\ last.events # <<>>) =>
        TableKey \in DOMAIN table.mac_and_targets

\* The command numbered i of a slot addresses items by their numbers.
IndexAddressed(i) == last.cmds[i].numbers # <<>>

\* Before command i the session took a listing, and since that listing it
\* sent nothing but listings or, when command i is a remove of delete_filter,
\* removes of the same delete_filter call.
ListedJustBefore(i) ==
    \E j \in 1..(i - 1) :
        /\ last.cmds[j].cmd = "print"
        /\ \A m \in (j + 1)..(i - 1) :
              \/ last.cmds[m].cmd = "print"
              \/ /\ last.cmds[i].by = "delete_filter"
                 /\ last.cmds[i].cmd = "remove"
                 /\ last.cmds[m].by = "delete_filter"
                 /\ last.cmds[m].cmd = "remove"

(* C27. Every command of a slot that addresses items by number comes       *)
(* after a listing of the same session with no mutation in between, the    *)
(* removes of one delete_filter call excepted; a session starts with no    *)
(* command sent, so no number is carried over from an earlier slot.        *)
C27_IndicesComeFromFreshListing ==
    last.op # "idle" =>
        \A i \in 1..Len(last.cmds) : IndexAddressed(i) => ListedJustBefore(i)

\* add_filter_to_router added a rule, listed twice and moved the rule.
C27_Witness ==
    /\ Completed("add_filter_to_router")
    /\ Len(last.cmds) = 4
    /\ last.cmds[1].cmd = "add"
    /\ last.cmds[2].cmd = "print"
    /\ last.cmds[3].cmd = "print"
    /\ last.cmds[4].cmd = "move"

\* delete_filter removed two rules from one listing.
C27_WitnessRemoves ==
    /\ Completed("delete_filter_from_router")
    /\ Len(last.cmds) = 3
    /\ last.cmds[3].cmd = "remove"

\* The keys of the items of a list that have a target.
KeysOf(items) ==
    {KeyOf(items[k]) : k \in {j \in 1..Len(items) : KeyOf(items[j])[2] # ""}}

\* The first item of a list that has the key.
FirstItem(items, key) ==
    items[CHOOSE k \in 1..Len(items) :
             /\ KeyOf(items[k]) = key
             /\ \A j \in 1..(k - 1) : KeyOf(items[j]) # key]

\* The list of the k-th router of the roster.
ItemsOf(k) == filters[str(routers[k].ip_address)]

(* C28. The statistics of a device that answered have exactly one entry    *)
(* for every key of its rules, with the state and the comment of the       *)
(* first rule of the key; the cycle sends nothing but listings and leaves  *)
(* every device's list, duplicates included, as it was.                    *)
C28_StatisticsOneEntryPerKeyOfFirstRule ==
    last.op = "get_statistics" =>
        /\ filters = last.before
        /\ \A i \in 1..Len(last.cmds) : last.cmds[i].cmd = "print"
        /\ \A k \in 1..Len(routers) :
              ~last.events[k].bad_router =>
                 /\ DOMAIN last.events[k].statistics = KeysOf(ItemsOf(k))
                 /\ \A key \in KeysOf(ItemsOf(k)) :
                       /\ last.events[k].statistics[key].disabled
                          = FirstItem(ItemsOf(k), key).disabled
                       /\ last.events[k].statistics[key].comment
                          = FirstItem(ItemsOf(k), key).comment

\* A device with two rules of one key in different states answered.
C28_Witness ==
    /\ last.op = "get_statistics"
    /\ \E k \in 1..Len(routers) :
          /\ ~last.events[k].bad_router
          /\ Len(ItemsOf(k)) = 2
          /\ KeyOf(ItemsOf(k)[1]) = KeyOf(ItemsOf(k)[2])
          /\ ItemsOf(k)[1].disabled # ItemsOf(k)[2].disabled
          /\ Cardinality(DOMAIN last.events[k].statistics) = 1

(* C22. A comment written with _encode_text and read back with             *)
(* _decode_text is the comment that was written, whatever its              *)
(* characters: the reading succeeds and gives the identical text.          *)
C22_CommentRoundTrip ==
    last.op = "_decode_text" => (last.ok /\ last.read = last.text)


\* The routers of a roster, without their order.
Devices(rs) == {rs[k] : k \in 1..Len(rs)}

(* C23. Whatever the default credentials and the overrides of the roster,  *)
(* loading the file that was just saved gives the same default            *)
(* credentials and the same devices with the same overrides, in ascending  *)
(* address order; an override that is absent is read back as absent.       *)
C23_SaveThenLoadGivesSameRoster ==
    (last.op # "idle" /\ last.saved /\ default_data # EmptyDict) =>
        /\ ReadRoutersFromConfig(config.sections).ok
        /\ Devices(ReadRoutersFromConfig(config.sections).routers) = Devices(routers)
        /\ Len(ReadRoutersFromConfig(config.sections).routers) = Len(routers)
        /\ Ascending(ReadRoutersFromConfig(config.sections).routers)
        /\ ReadDefaultUserAndPassword(config.main) = default_data



OtherRules(items) == SelectSeq(items, LAMBDA item : KeyOf(item) # RequestedKey)

(* C26. delete_filter, enable_filter, add_comment and the repositioning    *)
(* move leave every rule whose key is not the requested one as it was and  *)
(* where it was among the other rules, also when another party added or    *)
(* removed a rule between the listing and the commands.                    *)
C26_OnlyRequestedKeyTouched ==
    last.op = "sent" => OtherRules(filters[last.router_ip_address]) = OtherRules(last.before)



\* The addresses of the routers of the table, before the last slot, that
\* answered in the last cycle and for which the table holds a rule with
\* the key.
ReachableHaving(key) ==
    {last.before.data[k].router_ip_address :
        k \in {j \in 1..Len(last.before.data) :
                 /\ ~last.before.data[j].bad_router
                 /\ key \in DOMAIN last.before.data[j].statistics
                 /\ last.before.data[j].statistics[key] # EmptyDict}}

(* C21. Changing the comment of a key asks for add_comment, with the key   *)
(* and the new text, on exactly the routers that answered in the last      *)
(* cycle and hold a rule with the key; the comment the table keeps for     *)
(* the key is the new text whatever the routers do, and the label a        *)
(* rebuild makes from it shows the new text.                               *)
C21_CommentChangedEverywhere ==
    (last.op = "show_dialog_window_for_filter" /\ ~last.error) =>
        /\ {last.events[k].router_ip_address : k \in 1..Len(last.events)}
           = ReachableHaving(TableKey)
        /\ Len(last.events) = Cardinality(ReachableHaving(TableKey))
        /\ \A k \in 1..Len(last.events) :
              last.events[k]
                = CommentShouldBeAdded(last.events[k].router_ip_address,
                                       last.mac, last.target, last.comment)
        /\ table.mac_and_targets[TableKey] = last.comment
        /\ FillColumnWithFilters(table.mac_and_targets)[TableKey].comment
           = last.comment

\* The slots that delete a filter everywhere.
DeleteEverywhere == {"delete_filter_from_all_routers", "context_menu_delete"}

(* C24. A key of the table stays in the table until a step that deletes    *)
(* a filter everywhere: no other step, a refresh included, takes a key     *)
(* out of the table.                                                       *)
C24_KeysStayUntilDeleted ==
    [][\/ DOMAIN table.mac_and_targets \subseteq DOMAIN table'.mac_and_targets
       \/ last'.op \in DeleteEverywhere]_vars

\* The comment the statistics that just arrived report for a key.
ReportedComment(key) ==
    IF table.data[Len(table.data)].statistics[key] = EmptyDict THEN <<>>
    ELSE table.data[Len(table.data)].statistics[key].comment

(* C29. When the statistics of a router arrive, a comment of the table     *)
(* that is not empty stays as it is whatever the router reports for the    *)
(* key, and an empty or missing comment becomes the comment the router     *)
(* reports: over a cycle the first comment that is not empty wins.         *)
C29_FirstNonEmptyCommentWins ==
    last.op = "add_statistics" =>
        \A key \in DOMAIN table.mac_and_targets :
            table.mac_and_targets[key] =
                IF /\ key \in DOMAIN last.before.mac_and_targets
                   /\ last.before.mac_and_targets[key] # <<>>
                THEN last.before.mac_and_targets[key]
                ELSE ReportedComment(key)

\* A later router reported another comment and the first one stayed.
C29_Witness ==
    /\ last.op = "add_statistics"
    /\ \E key \in DOMAIN last.before.mac_and_targets :
          /\ last.before.mac_and_targets[key] # <<>>
          /\ ReportedComment(key) # <<>>
          /\ ReportedComment(key) # last.before.mac_and_targets[key]
          /\ table.mac_and_targets[key] = last.before.mac_and_targets[key]

\* The first router reported the key without a comment and a later
\* router's comment was taken.
C29_WitnessEmpty ==
    /\ last.op = "add_statistics"
    /\ \E key \in DOMAIN last.before.mac_and_targets :
          /\ last.before.mac_and_targets[key] = <<>>
          /\ ReportedComment(key) # <<>>
          /\ table.mac_and_targets[key] = ReportedComment(key)

(* C30. The actions "delete" and "distribute" of the context menu of a     *)
(* filter's label act on the filter of that label and on no other: after   *)
(* "delete" the table lacks the label's key and only it, and every signal  *)
(* either action emits names the label's key.                              *)
C30_ContextMenuActsOnItsRow ==
    last.op \in {"context_menu_delete", "context_menu_distribute"} =>
        /\ ~last.error
        /\ \A k \in 1..Len(last.events) :
              last.events[k].mac = last.mac /\ last.events[k].target = last.target
        /\ DOMAIN table.mac_and_targets =
              IF last.op = "context_menu_delete"
              THEN DOMAIN last.before.mac_and_targets \ {TableKey}
              ELSE DOMAIN last.before.mac_and_targets



(* C33. change_filter_state on a device that answers and holds a rule of   *)
(* the key takes no fallback: it sends exactly one enable/disable command  *)
(* and no add command, emits no result of a failure, and the device holds  *)
(* as many rules as before.                                                *)
C33_HeldKeyTakesNoFallback ==
    (EnableFilterReturned /\ MatchingNumbers(Before) # {}) =>
        /\ Len(ToggleCmds) = 1
        /\ \A k \in 1..Len(last.cmds) : last.cmds[k].cmd # "add"
        /\ last.events = <<>>
        /\ ~last.error
        /\ Len(After) = Len(Before)



\* The slots that work on one device.
DeviceOps ==
    {"add_filter_to_router", "change_filter_state", "delete_filter_from_router",
     "add_comment_to_filter"}

\* The list of the device after one more command of the slot.
AfterCmd(items, cmd) ==
    IF DeviceAccepts(items, cmd) THEN DeviceApply(items, cmd) ELSE items

\* The complete list of the device when command i of the slot reached it.
RECURSIVE ListBefore(_)
ListBefore(i) ==
    IF i = 1 THEN Before ELSE AfterCmd(ListBefore(i - 1), last.cmds[i - 1])

\* The 0-based numbers of the drop rules of a list.
DropNumbers(items) == {k - 1 : k \in {j \in 1..Len(items) : items[j].action = "drop"}}

Highest(nums) == CHOOSE n \in nums : \A m \in nums : n >= m

(* C34. Every index the driver sends is the position of the rule it means  *)
(* in the complete list of the device at that moment: the numbers of a     *)
(* remove, enable, disable or comment command are positions of rules of    *)
(* the requested key, the move takes the last rule of the key to the       *)
(* position of the first drop rule, and rules without a MAC matcher are    *)
(* counted although the statistics of a cycle have no entry for them.      *)
C34_IndexIsPositionInCompleteList ==
    /\ (last.op \in DeviceOps /\ last.connected) =>
          \A i \in 1..Len(last.cmds) :
              IndexAddressed(i) =>
                 IF last.cmds[i].cmd = "move"
                 THEN /\ last.cmds[i].numbers
                         = <<Highest(MatchingNumbers(ListBefore(i)))>>
                      /\ last.cmds[i].arg = Lowest(DropNumbers(ListBefore(i)))
                 ELSE \A k \in 1..Len(last.cmds[i].numbers) :
                         last.cmds[i].numbers[k] \in MatchingNumbers(ListBefore(i))
    /\ last.op = "get_statistics" =>
          \A k \in 1..Len(routers) :
              ~last.events[k].bad_router =>
                  \A key \in DOMAIN last.events[k].statistics : key[2] # ""

\* A rule without a MAC matcher stands before the rule of the key, and the
\* command names the rule of the key by the number 1.
C34_Witness ==
    /\ last.op \in DeviceOps /\ last.connected
    /\ \E i \in 1..Len(last.cmds) :
          /\ IndexAddressed(i)
          /\ last.cmds[i].cmd \in {"remove", "enable", "disable", "comment"}
          /\ last.cmds[i].numbers = <<1>>
          /\ KeyOf(ListBefore(i)[1]) = <<"", "">>
          /\ KeyOf(ListBefore(i)[2]) = RequestedKey



\* The signals the last slot emitted for one router.
RequestsTo(router_ip_address) ==
    SelectSeq(last.events, LAMBDA e : e.router_ip_address = router_ip_address)

(* C32. One add_filter_to_all_routers sends every router that answered     *)
(* and lacks the key exactly one request, filter_should_be_added, and      *)
(* sends nobody a filter_should_be_changed.                                *)
C32_DistributeSendsOneAddAndNoChange ==
    last.op = "add_filter_to_all_routers" =>
        /\ \A a \in ReachableLacking(TableKey) :
              /\ Len(RequestsTo(a)) = 1
              /\ RequestsTo(a)[1].signal = "filter_should_be_added"
        /\ Requests("filter_should_be_changed") = <<>>



----------------------------------------------------------------------------
(* C31. After removals of routers by FilterTable.delete_router, column     *)
(* i + 1 of the table shows the router at position i of _data, and the     *)
(* context menu of a router removes the column in which its label stands,  *)
(* no column of another router and no column of buttons.                   *)

\* Column i + 1 of the table shows element i of _data, for every i.
ColumnsShowData ==
    \A k \in 1..Len(table.data) :
        /\ k <= Len(table.columns)
        /\ table.columns[k].text = table.data[k].router_ip_address

C31_DeleteRouterRemovesOwnColumn ==
    /\ ColumnsShowData
    /\ (last.op = "show_context_menu_for_router" /\ Len(last.before.data) > 1) =>
           table.columns = RemoveColumn(last.before.columns, last.stands)


----------------------------------------------------------------------------
(* C35. From table_should_be_updated until its statistics_finished is      *)
(* handled the table and the inputs of the main window are disabled and    *)
(* the table emits nothing, neither an intent for a filter nor another     *)
(* table_should_be_updated; handling statistics_finished enables them.     *)

\* The refresh cycles requested and not finished: the requests Routers has
\* not taken up and the statistics_finished the window has not handled.
RefreshesUnderWay ==
    Len(SelectSeq(signals.routers,
                  LAMBDA e : e.signal = "table_should_be_updated"))
        + Len(SelectSeq(signals.table,
                        LAMBDA e : e.signal = "statistics_finished"))

C35_DisabledAndSilentWhileRefreshing ==
    [][/\ RefreshesUnderWay' > 0 => ~table'.enabled
       /\ RefreshesUnderWay > 0 => Len(signals'.routers) <= Len(signals.routers)
       /\ last'.op = "statistics_finished" => table'.enabled]_vars

============================================================================
